---- MODULE Spec2Model ----
(***************************************************************************)
(* Model of the garminfit FIT decoder: the record layer                    *)
(* (src/src/types/record.rs), the profile dispatch it calls                *)
(* (src/src/profile/messages.rs) and the driver loop that owns the         *)
(* local-message table.                                                    *)
(*                                                                         *)
(* The byte source is modelled as a reader value                           *)
(*   [data |-> bytes not yet consumed, pos |-> absolute offset,            *)
(*    blk |-> block size of the source (0 = none), hit |-> a read found    *)
(*    the end of the source]                                               *)
(* and every decode function is an operator from a reader to a result      *)
(*   [ok, err, val, rd].                                                   *)
(***************************************************************************)
EXTENDS Integers, Sequences, FiniteSets, TLC

VARIABLES stream, eof, blk, data_size, local_mesgs, records, status, last, unit,
          dump

vars == <<stream, eof, blk, data_size, local_mesgs, records, status, last, unit,
          dump>>

(***************************************************************************)
(* Bounds of the model.                                                    *)
(***************************************************************************)
MaxRecords == 4
MaxFields == 2
MaxDevFields == 1

(***************************************************************************)
(* Option<T>: None is the empty sequence, Some(x) the one-element one.     *)
(***************************************************************************)
None == <<>>
Some(x) == <<x>>
IsSome(o) == Len(o) = 1
Unwrap(o) == o[1]

Min(a, b) == IF a <= b THEN a ELSE b

\* `let x = e; F(x)`: e is evaluated once and F applied to its value.
Bind(e, F(_)) == CHOOSE v \in {F(x) : x \in {e}} : TRUE

Zeros(n) == [i \in 1..n |-> 0]

Take(s, n) == SubSeq(s, 1, n)
Drop(s, n) == SubSeq(s, n + 1, Len(s))

(***************************************************************************)
(* Bit utilities (trait bits::Bits, used by Header::decode).               *)
(***************************************************************************)
Pow2(n) == IF n = 0 THEN 1 ELSE IF n = 1 THEN 2 ELSE IF n = 2 THEN 4
           ELSE IF n = 3 THEN 8 ELSE IF n = 4 THEN 16 ELSE IF n = 5 THEN 32
           ELSE IF n = 6 THEN 64 ELSE IF n = 7 THEN 128 ELSE 256

bit_is_set(byte, i) == (byte \div Pow2(i)) % 2 = 1
bit_not_set(byte, i) == (byte \div Pow2(i)) % 2 = 0
bit_range(byte, lo, hi) == (byte \div Pow2(lo)) % Pow2(hi - lo + 1)

(***************************************************************************)
(* Error model.  An error is its causal chain, outermost layer first; each *)
(* layer is [kind, what, n]: a Read or Decoding wrapper with its context   *)
(* (n = index formatted into the context, -1 when none), or a root cause   *)
(* with its argument.                                                      *)
(***************************************************************************)
Layer(kind, what, n) == [kind |-> kind, what |-> what, n |-> n]

IoUnexpectedEof == <<Layer("UnexpectedEof", "", -1)>>
Error_reading(what, n, cause) == <<Layer("Read", what, n)>> \o cause
Error_decoding(what, cause) == <<Layer("Decoding", what, -1)>> \o cause
Error_missing_definition(n) == <<Layer("MissingDefinition", "", n)>>
Error_unknown_architecture(n) == <<Layer("UnknownArchitecture", "", n)>>

RootCause(err) == err[Len(err)]

(***************************************************************************)
(* Results of the decode operators.                                        *)
(***************************************************************************)
Ok(v, rd) == [ok |-> TRUE, val |-> v, err |-> <<>>, rd |-> rd]
Err(e, rd) == [ok |-> FALSE, val |-> <<>>, err |-> e, rd |-> rd]

(***************************************************************************)
(* The byte source.                                                        *)
(***************************************************************************)
Reader(data, pos, b) == [data |-> data, pos |-> pos, blk |-> b, hit |-> FALSE]

\* Advance leaving the source where it is.
Advance_stuck(rd, n, hit) == [rd EXCEPT !.hit = rd.hit \/ hit]

Advance(rd, n, hit) ==
    [rd EXCEPT !.data = Drop(rd.data, n), !.pos = rd.pos + n,
               !.hit = rd.hit \/ hit]

\* read_exact filling up with zeros what the source does not have.
read_exact_padded(rd, n) ==
    IF Len(rd.data) >= n
    THEN Ok(Take(rd.data, n), Advance(rd, n, FALSE))
    ELSE Ok(rd.data \o Zeros(n - Len(rd.data)),
            Advance(rd, Len(rd.data), TRUE))

\* read_exact of n bytes (read_u8, read_u16): all n bytes or UnexpectedEof.
read_exact(rd, n) ==
    IF Len(rd.data) >= n
    THEN Ok(Take(rd.data, n), Advance(rd, n, FALSE))
    ELSE Err(IoUnexpectedEof, Advance(rd, Len(rd.data), TRUE))

read_u8(rd) ==
    Bind(read_exact(rd, 1),
         LAMBDA r : IF r.ok THEN Ok(r.val[1], r.rd) ELSE r)

\* The bytes left in the current block of a block-buffered source.
BlockLeft(rd) == IF rd.blk = 0 THEN 256 ELSE rd.blk - (rd.pos % rd.blk)

\* Read::read into a zeroed buffer of n bytes: one read call, which returns
\* what the source has at hand, at most n bytes; the rest of the buffer keeps
\* its zeros.  val is [buffer, nread].
read(rd, n) ==
    Bind(Min(Min(n, Len(rd.data)), BlockLeft(rd)),
         LAMBDA k :
            Ok([buffer |-> Take(rd.data, k) \o Zeros(n - k), nread |-> k],
               Advance(rd, k, Len(rd.data) < n /\ k = Len(rd.data))))

(***************************************************************************)
(* Header::decode                                                          *)
(***************************************************************************)
\* normal_header with the local message number of a data message taken from
\* five bits.
normal_header_wide(byte) ==
    IF bit_is_set(byte, 6)
    THEN [type |-> "Definition",
          local_mesg_num |-> bit_range(byte, 0, 3),
          has_dev_fields |-> bit_is_set(byte, 5)]
    ELSE [type |-> "Data",
          local_mesg_num |-> bit_range(byte, 0, 4)]

\* Normal header (bit 7 clear): bit 6 tells a definition from a data message.
normal_header(byte) ==
    IF bit_is_set(byte, 6)
    THEN [type |-> "Definition",
          local_mesg_num |-> bit_range(byte, 0, 3),
          has_dev_fields |-> bit_is_set(byte, 5)]
    ELSE [type |-> "Data",
          local_mesg_num |-> bit_range(byte, 0, 3)]

\* compressed_timestamp_header with the local message number taken from
\* bits 7..5.
compressed_timestamp_header_wide(byte) ==
    [type |-> "CompressedTimestamp",
     local_mesg_num |-> bit_range(byte, 5, 7),
     time_offset |-> bit_range(byte, 0, 4)]

\* Compressed timestamp header (bit 7 set).
compressed_timestamp_header(byte) ==
    [type |-> "CompressedTimestamp",
     local_mesg_num |-> bit_range(byte, 5, 6),
     time_offset |-> bit_range(byte, 0, 4)]

Header_decode(rd) ==
    Bind(read_u8(rd),
         LAMBDA b :
            IF ~b.ok THEN Err(Error_reading("byte", -1, b.err), b.rd)
            ELSE IF bit_not_set(b.val, 7)
                 THEN Ok(normal_header(b.val), b.rd)
                 ELSE Ok(compressed_timestamp_header(b.val), b.rd))

(***************************************************************************)
(* Architecture::try_from                                                  *)
(***************************************************************************)
\* Architecture::try_from taking every odd byte for big-endian.
Architecture_try_from_odd(n, rd) ==
    IF n = 0 THEN Ok("LittleEndian", rd)
    ELSE IF n % 2 = 1 THEN Ok("BigEndian", rd)
    ELSE Err(Error_unknown_architecture(n), rd)

Architecture_try_from(n, rd) ==
    IF n = 0 THEN Ok("LittleEndian", rd)
    ELSE IF n = 1 THEN Ok("BigEndian", rd)
    ELSE Err(Error_unknown_architecture(n), rd)

\* read_u16::<T>: two bytes combined in the byte order T.
u16_of(bytes, T) ==
    IF T = "LittleEndian" THEN bytes[1] + 256 * bytes[2]
    ELSE 256 * bytes[1] + bytes[2]

read_u16(rd, T) ==
    Bind(read_exact(rd, 2),
         LAMBDA r : IF r.ok THEN Ok(u16_of(r.val, T), r.rd) ELSE r)

(***************************************************************************)
(* FieldDefinition::decode                                                 *)
(***************************************************************************)
WhatNumber(is_developer_field) ==
    IF is_developer_field THEN "developer field number" ELSE "field number"
WhatSize(is_developer_field) ==
    IF is_developer_field THEN "developer field size" ELSE "field size"
WhatThird(is_developer_field) ==
    IF is_developer_field THEN "developer field data index"
    ELSE "field base type id"

\* FieldDefinition::decode keeping the wire number of a developer field.
FieldDefinition_decode_wire(rd, is_developer_field) ==
    Bind(read_u8(rd), LAMBDA a :
    IF ~a.ok
    THEN Err(Error_reading(WhatNumber(is_developer_field), -1, a.err), a.rd)
    ELSE
    Bind(read_u8(a.rd), LAMBDA b :
    IF ~b.ok
    THEN Err(Error_reading(WhatSize(is_developer_field), -1, b.err), b.rd)
    ELSE
    Bind(read_u8(b.rd), LAMBDA c :
    IF ~c.ok
    THEN Err(Error_reading(WhatThird(is_developer_field), -1, c.err), c.rd)
    ELSE IF is_developer_field
         THEN Ok([num |-> a.val, size |-> b.val, base_type_num |-> 13], c.rd)
         ELSE Ok([num |-> a.val, size |-> b.val, base_type_num |-> c.val],
                 c.rd))))

\* FieldDefinition::decode taking the first byte of a regular field
\* definition for the base type and the third for the number.
FieldDefinition_decode_reversed(rd, is_developer_field) ==
    Bind(read_u8(rd), LAMBDA a :
    IF ~a.ok
    THEN Err(Error_reading(WhatNumber(is_developer_field), -1, a.err), a.rd)
    ELSE
    Bind(read_u8(a.rd), LAMBDA b :
    IF ~b.ok
    THEN Err(Error_reading(WhatSize(is_developer_field), -1, b.err), b.rd)
    ELSE
    Bind(read_u8(b.rd), LAMBDA c :
    IF ~c.ok
    THEN Err(Error_reading(WhatThird(is_developer_field), -1, c.err), c.rd)
    ELSE IF is_developer_field
         THEN Ok([num |-> 255, size |-> b.val, base_type_num |-> 13], c.rd)
         ELSE Ok([num |-> c.val, size |-> b.val, base_type_num |-> a.val],
                 c.rd))))

FieldDefinition_decode(rd, is_developer_field) ==
    Bind(read_u8(rd), LAMBDA a :
    IF ~a.ok
    THEN Err(Error_reading(WhatNumber(is_developer_field), -1, a.err), a.rd)
    ELSE
    Bind(read_u8(a.rd), LAMBDA b :
    IF ~b.ok
    THEN Err(Error_reading(WhatSize(is_developer_field), -1, b.err), b.rd)
    ELSE
    Bind(read_u8(b.rd), LAMBDA c :
    IF ~c.ok
    THEN Err(Error_reading(WhatThird(is_developer_field), -1, c.err), c.rd)
    ELSE IF is_developer_field
         THEN Ok([num |-> 255, size |-> b.val, base_type_num |-> 13], c.rd)
         ELSE Ok([num |-> a.val, size |-> b.val, base_type_num |-> c.val],
                 c.rd))))

\* The loops `for i in 0..n` of Definition::decode: field definitions i..n-1
\* are decoded and pushed onto acc; the first failure ends the loop.
RECURSIVE FieldDefinitions(_, _, _, _, _)
FieldDefinitions(rd, i, n, is_developer_field, acc) ==
    IF i >= n THEN Ok(acc, rd)
    ELSE Bind(FieldDefinition_decode(rd, is_developer_field), LAMBDA f :
            IF ~f.ok
            THEN Err(Error_reading("field definition #", i, f.err), f.rd)
            ELSE FieldDefinitions(f.rd, i + 1, n, is_developer_field,
                                  Append(acc, f.val)))

\* DeveloperSection taking the count of regular fields for ndevfields.
DeveloperSection_uncounted(rd, arch, global_mesg_num, nfields, field_defs) ==
    Bind(read_u8(rd), LAMBDA ndevfields :
    IF ~ndevfields.ok
    THEN Err(Error_reading("number of fields", -1, ndevfields.err),
             ndevfields.rd)
    ELSE
    Bind(FieldDefinitions(ndevfields.rd, 0, ndevfields.val, TRUE, <<>>),
         LAMBDA devfield_defs :
    IF ~devfield_defs.ok THEN devfield_defs
    ELSE Ok([arch |-> arch,
             global_mesg_num |-> global_mesg_num,
             nfields |-> nfields,
             field_defs |-> field_defs,
             ndevfields |-> Some(nfields),
             devfield_defs |-> Some(devfield_defs.val)], devfield_defs.rd)))

\* The developer section of Definition::decode (`if has_dev_fields`), after
\* the regular field definitions.
DeveloperSection(rd, arch, global_mesg_num, nfields, field_defs) ==
    Bind(read_u8(rd), LAMBDA ndevfields :
    IF ~ndevfields.ok
    THEN Err(Error_reading("number of fields", -1, ndevfields.err),
             ndevfields.rd)
    ELSE
    Bind(FieldDefinitions(ndevfields.rd, 0, ndevfields.val, TRUE, <<>>),
         LAMBDA devfield_defs :
    IF ~devfield_defs.ok THEN devfield_defs
    ELSE Ok([arch |-> arch,
             global_mesg_num |-> global_mesg_num,
             nfields |-> nfields,
             field_defs |-> field_defs,
             ndevfields |-> Some(ndevfields.val),
             devfield_defs |-> Some(devfield_defs.val)], devfield_defs.rd)))

(***************************************************************************)
(* Definition::decode                                                      *)
(***************************************************************************)
\* Definition::decode after the reserved byte: architecture, global message
\* number, field definitions, developer section.
DefinitionAfterReserved(rd, has_dev_fields) ==
    Bind(read_u8(rd), LAMBDA archb :
    IF ~archb.ok
    THEN Err(Error_reading("architecture byte", -1, archb.err), archb.rd)
    ELSE
    Bind(Architecture_try_from(archb.val, archb.rd), LAMBDA arch :
    IF ~arch.ok THEN arch
    ELSE
    Bind(read_u16(arch.rd, arch.val), LAMBDA gmn :
    IF ~gmn.ok
    THEN Err(Error_reading("global message number", -1, gmn.err), gmn.rd)
    ELSE
    Bind(read_u8(gmn.rd), LAMBDA nfields :
    IF ~nfields.ok
    THEN Err(Error_reading("number of fields", -1, nfields.err), nfields.rd)
    ELSE
    Bind(FieldDefinitions(nfields.rd, 0, nfields.val, FALSE, <<>>),
         LAMBDA field_defs :
    IF ~field_defs.ok THEN field_defs
    ELSE IF has_dev_fields
         THEN DeveloperSection(field_defs.rd, arch.val, gmn.val, nfields.val,
                               field_defs.val)
         ELSE Ok([arch |-> arch.val,
                  global_mesg_num |-> gmn.val,
                  nfields |-> nfields.val,
                  field_defs |-> field_defs.val,
                  ndevfields |-> None,
                  devfield_defs |-> None], field_defs.rd))))))

\* Definition::decode refusing a reserved byte that is not 0.
Definition_decode_reserved(rd, has_dev_fields) ==
    Bind(read_u8(rd), LAMBDA reserved :
    IF ~reserved.ok
    THEN Err(Error_reading("reserved byte", -1, reserved.err), reserved.rd)
    ELSE IF reserved.val # 0
    THEN Err(Error_reading("reserved byte", reserved.val, <<>>), reserved.rd)
    ELSE DefinitionAfterReserved(reserved.rd, has_dev_fields))

\* `r.read_u8().map_err(Error::reading("reserved byte"))?;`: the byte is
\* read and dropped, the rest is decoded from the byte after it.
Definition_decode(rd, has_dev_fields) ==
    Bind(read_u8(rd), LAMBDA reserved :
    IF ~reserved.ok
    THEN Err(Error_reading("reserved byte", -1, reserved.err), reserved.rd)
    ELSE DefinitionAfterReserved(reserved.rd, has_dev_fields))

(***************************************************************************)
(* Base-type codecs (profile::base, profile::types).  A decoded value is   *)
(* its number (raw) or, for a string, its bytes (text).                    *)
(***************************************************************************)
POk(v) == [ok |-> TRUE, val |-> v, err |-> <<>>]
PErr(e) == [ok |-> FALSE, val |-> <<>>, err |-> e]

Error_invalid_encoding == <<Layer("InvalidEncoding", "", -1)>>
Error_invalid_length(n) == <<Layer("InvalidLength", "", n)>>

\* Width in bytes of the fixed-width types; enumerated profile types have the
\* width of their base type.
Width(btype) ==
    CASE btype \in {"Uint8", "Uint8z", "Sint8", "Enum", "File"} -> 1
      [] btype \in {"Uint16", "Uint16z", "Sint16", "Manufacturer"} -> 2
      [] btype \in {"Uint32", "Uint32z", "Sint32", "DateTime"} -> 4

RECURSIVE UintOf(_, _)
\* The unsigned value of a run of bytes in the byte order T.
UintOf(bytes, T) ==
    IF bytes = <<>> THEN 0
    ELSE IF T = "LittleEndian"
         THEN bytes[1] + 256 * UintOf(Tail(bytes), T)
         ELSE UintOf(Take(bytes, Len(bytes) - 1), T) * 256 + bytes[Len(bytes)]

RECURSIVE TrimAtNul(_)
\* A string field ends at its first NUL byte.
TrimAtNul(bytes) ==
    IF bytes = <<>> \/ bytes[1] = 0 THEN <<>>
    ELSE <<bytes[1]>> \o TrimAtNul(Tail(bytes))

IsCont(b) == b >= 128 /\ b <= 191

RECURSIVE IsUtf8(_)
\* Well-formed UTF-8.
IsUtf8(bytes) ==
    IF bytes = <<>> THEN TRUE
    ELSE LET b == bytes[1]
             n == Len(bytes)
         IN  IF b < 128 THEN IsUtf8(Tail(bytes))
             ELSE IF b >= 194 /\ b <= 223
             THEN n >= 2 /\ IsCont(bytes[2]) /\ IsUtf8(Drop(bytes, 2))
             ELSE IF b >= 224 /\ b <= 239
             THEN /\ n >= 3 /\ IsCont(bytes[2]) /\ IsCont(bytes[3])
                  /\ (b = 224 => bytes[2] >= 160)
                  /\ (b = 237 => bytes[2] <= 159)
                  /\ IsUtf8(Drop(bytes, 3))
             ELSE IF b >= 240 /\ b <= 244
             THEN /\ n >= 4 /\ IsCont(bytes[2]) /\ IsCont(bytes[3])
                  /\ IsCont(bytes[4])
                  /\ (b = 240 => bytes[2] >= 144)
                  /\ (b = 244 => bytes[2] <= 143)
                  /\ IsUtf8(Drop(bytes, 4))
             ELSE FALSE

Base_decode(btype, buffer, T) ==
    IF btype = "Utf8String"
    THEN Bind(TrimAtNul(buffer), LAMBDA text :
            IF IsUtf8(text) THEN POk([text |-> text])
            ELSE PErr(Error_invalid_encoding))
    ELSE IF Len(buffer) < Width(btype)
         THEN PErr(Error_invalid_length(Len(buffer)))
         ELSE POk([raw |-> UintOf(Take(buffer, Width(btype)), T)])

(***************************************************************************)
(* Field<T>: the decoded value with the profile's scale, offset and units. *)
(***************************************************************************)
Field(msg, variant, btype, buffer, T, scale, offset, units) ==
    Bind(Base_decode(btype, buffer, T), LAMBDA v :
        IF ~v.ok THEN v
        ELSE POk([msg |-> msg, variant |-> variant, btype |-> btype,
                  raw_value |-> v.val, scale |-> scale, offset |-> offset,
                  units |-> units]))

\* UnknownField giving Message::Unknown in place of the message's own variant.
UnknownField_as_message(msg, buffer, field_def_num) ==
    POk([msg |-> "Unknown", data |-> buffer, mesg_num |-> -1,
         field_def_num |-> field_def_num])

\* The Unknown variant of a message of the profile.
UnknownField(msg, buffer, field_def_num) ==
    POk([msg |-> msg, variant |-> "Unknown", data |-> buffer,
         field_def_num |-> field_def_num])

\* A field of the profile that this model does not decode.
OtherField(msg, field_def_num) ==
    POk([msg |-> msg, variant |-> "Other", field_def_num |-> field_def_num])

(***************************************************************************)
(* Field::value and Field::is_valid.  The value is a 64-bit float in the   *)
(* code; here it is the exact quotient [num, den] (num / den), rounding is *)
(* not modelled.                                                           *)
(***************************************************************************)
unwrap_or(o, default) == IF IsSome(o) THEN Unwrap(o) ELSE default

\* The quotient a / b and the difference q - n of a quotient and a number.
Quotient(a, b) == [num |-> a, den |-> b]
Minus(q, n) == [num |-> q.num - n * q.den, den |-> q.den]

\* Field::value adding the offset.
Field_value_plus(field) ==
    Minus(Quotient(field.raw_value.raw, unwrap_or(field.scale, 1)),
          0 - unwrap_or(field.offset, 0))

\* self.raw_value.0 as f64 / self.scale.unwrap_or(1.0)
\*     - self.offset.unwrap_or(0.0)
Field_value(field) ==
    Minus(Quotient(field.raw_value.raw, unwrap_or(field.scale, 1)),
          unwrap_or(field.offset, 0))

\* The invalid value of a base type (trait profile::base::Valid): all ones
\* for the unsigned types of 8 and 16 bits, zero for the "z" types.
InvalidValue(btype) ==
    CASE btype \in {"Uint8", "Enum", "File"} -> 255
      [] btype \in {"Uint16", "Manufacturer"} -> 65535
      [] btype \in {"Uint8z", "Uint16z", "Uint32z"} -> 0

\* Field::is_valid holding of every value.
Field_is_valid_always(field) == TRUE

\* self.raw_value.is_valid()
Field_is_valid(field) == field.raw_value.raw # InvalidValue(field.btype)

(***************************************************************************)
(* FileId::decode (global message 0)                                       *)
(***************************************************************************)
\* FileId::decode knowing the field Type only.
FileId_decode_type_only(buffer, field_def_num, T) ==
    IF field_def_num = 0
    THEN Field("FileId", "Type", "File", buffer, T, None, None, None)
    ELSE UnknownField("FileId", buffer, field_def_num)

FileId_decode(buffer, field_def_num, T) ==
    CASE field_def_num = 0 ->
           Field("FileId", "Type", "File", buffer, T, None, None, None)
      [] field_def_num = 1 ->
           Field("FileId", "Manufacturer", "Manufacturer", buffer, T,
                 None, None, None)
      [] field_def_num = 2 ->
           Field("FileId", "Product", "Uint16", buffer, T, None, None, None)
      [] field_def_num = 3 ->
           Field("FileId", "SerialNumber", "Uint32z", buffer, T,
                 None, None, None)
      [] field_def_num = 4 ->
           Field("FileId", "TimeCreated", "DateTime", buffer, T,
                 None, None, None)
      [] field_def_num = 5 ->
           Field("FileId", "Number", "Uint16", buffer, T, None, None, None)
      [] field_def_num = 8 ->
           Field("FileId", "ProductName", "Utf8String", buffer, T,
                 None, None, None)
      [] OTHER -> UnknownField("FileId", buffer, field_def_num)

(***************************************************************************)
(* Record::decode of the profile (global message 20)                       *)
(***************************************************************************)
RecordFieldNums ==
    (0..13) \cup (17..19) \cup (28..33) \cup (39..59) \cup {62}
    \cup (67..73) \cup {78} \cup (81..85) \cup (91..98) \cup {253}

profile_Record_decode(buffer, field_def_num, T) ==
    CASE field_def_num = 2 ->
           Field("Record", "Altitude", "Uint16", buffer, T,
                 Some(5), Some(500), Some("m"))
      [] field_def_num = 3 ->
           Field("Record", "HeartRate", "Uint8", buffer, T,
                 None, None, Some("bpm"))
      [] field_def_num \in RecordFieldNums \ {2, 3} ->
           OtherField("Record", field_def_num)
      [] OTHER -> UnknownField("Record", buffer, field_def_num)

(***************************************************************************)
(* Message::decode of the profile                                          *)
(***************************************************************************)
MesgNums ==
    (0..10) \cup {12, 15, 18, 19, 20, 21, 23, 26, 27, 28, 30, 31, 32, 33,
      34, 35, 37, 38, 39, 49, 51, 53, 55, 72, 78, 80, 81, 82, 101, 103, 106,
      127, 128, 129, 131, 132, 142, 145, 148, 149, 150, 151, 158, 159, 160,
      161, 162, 164, 165, 167, 169, 174, 177, 178, 184, 185, 186, 187, 188,
      200, 201, 202, 206, 207, 208, 209, 210, 225, 227, 258, 259, 262, 264,
      268}

\* The registry of the profile: for each global message number of
\* Message::decode, the message it dispatches to and the field definition
\* numbers that message's decode has an arm for.
ProfileMessage(mesg_num) ==
    CASE mesg_num = 0 -> [name |-> "FileId", nums |-> (0..5) \cup {8}]
      [] mesg_num = 1 -> [name |-> "Capabilities", nums |-> {0, 1, 21, 23}]
      [] mesg_num = 2 -> [name |-> "DeviceSettings", nums |-> (0..2) \cup
             (55..59) \cup {4, 5, 12, 36, 39, 40, 46, 47, 80, 86, 89, 90, 94,
             95, 134}]
      [] mesg_num = 3 -> [name |-> "UserProfile", nums |-> (0..14) \cup
             (16..18) \cup (21..23) \cup (28..32) \cup {47, 49, 254}]
      [] mesg_num = 4 -> [name |-> "HrmProfile", nums |-> (0..3) \cup {254}]
      [] mesg_num = 5 -> [name |-> "SdmProfile", nums |-> (0..5) \cup {7,
             254}]
      [] mesg_num = 6 -> [name |-> "BikeProfile", nums |-> (0..24) \cup
             (37..41) \cup {44, 254}]
      [] mesg_num = 7 -> [name |-> "ZonesTarget", nums |-> (1..3) \cup {5, 7}]
      [] mesg_num = 8 -> [name |-> "HrZone", nums |-> {1, 2, 254}]
      [] mesg_num = 9 -> [name |-> "PowerZone", nums |-> {1, 2, 254}]
      [] mesg_num = 10 -> [name |-> "MetZone", nums |-> (1..3) \cup {254}]
      [] mesg_num = 12 -> [name |-> "Sport", nums |-> {0, 1, 3}]
      [] mesg_num = 15 -> [name |-> "Goal", nums |-> (0..11) \cup {254}]
      [] mesg_num = 18 -> [name |-> "Session", nums |-> (0..11) \cup (13..32)
             \cup (34..37) \cup (41..71) \cup (82..105) \cup (111..134) \cup
             {137, 139, 253, 254}]
      [] mesg_num = 19 -> [name |-> "Lap", nums |-> (0..26) \cup (32..35) \cup
             (37..63) \cup (74..89) \cup (91..95) \cup (98..121) \cup {71,
             253, 254}]
      [] mesg_num = 20 -> [name |-> "Record", nums |-> (0..13) \cup (17..19)
             \cup (28..33) \cup (39..59) \cup (67..73) \cup (81..85) \cup
             (91..98) \cup {62, 78, 253}]
      [] mesg_num = 21 -> [name |-> "Event", nums |-> (0..4) \cup (7..13) \cup
             {253}]
      [] mesg_num = 23 -> [name |-> "DeviceInfo", nums |-> (0..7) \cup
             (18..22) \cup {10, 11, 25, 27, 253}]
      [] mesg_num = 26 -> [name |-> "Workout", nums |-> (4..6) \cup {8, 11,
             14, 15}]
      [] mesg_num = 27 -> [name |-> "WorkoutStep", nums |-> (0..13) \cup
             {254}]
      [] mesg_num = 28 -> [name |-> "Schedule", nums |-> (0..6)]
      [] mesg_num = 30 -> [name |-> "WeightScale", nums |-> (0..5) \cup
             (7..12) \cup {253}]
      [] mesg_num = 31 -> [name |-> "Course", nums |-> (4..7)]
      [] mesg_num = 32 -> [name |-> "CoursePoint", nums |-> (1..6) \cup {8,
             254}]
      [] mesg_num = 33 -> [name |-> "Totals", nums |-> (0..6) \cup {9, 253,
             254}]
      [] mesg_num = 34 -> [name |-> "Activity", nums |-> (0..6) \cup {253}]
      [] mesg_num = 35 -> [name |-> "Software", nums |-> {3, 5, 254}]
      [] mesg_num = 37 -> [name |-> "FileCapabilities", nums |-> (0..4) \cup
             {254}]
      [] mesg_num = 38 -> [name |-> "MesgCapabilities", nums |-> (0..3) \cup
             {254}]
      [] mesg_num = 39 -> [name |-> "FieldCapabilities", nums |-> (0..3) \cup
             {254}]
      [] mesg_num = 49 -> [name |-> "FileCreator", nums |-> {0, 1}]
      [] mesg_num = 51 -> [name |-> "BloodPressure", nums |-> (0..9) \cup
             {253}]
      [] mesg_num = 53 -> [name |-> "SpeedZone", nums |-> {0, 1, 254}]
      [] mesg_num = 55 -> [name |-> "Monitoring", nums |-> (0..12) \cup
             (14..16) \cup (24..34) \cup {19, 253}]
      [] mesg_num = 72 -> [name |-> "TrainingFile", nums |-> (0..4) \cup
             {253}]
      [] mesg_num = 78 -> [name |-> "Hrv", nums |-> {0}]
      [] mesg_num = 80 -> [name |-> "AntRx", nums |-> (0..4) \cup {253}]
      [] mesg_num = 81 -> [name |-> "AntTx", nums |-> (0..4) \cup {253}]
      [] mesg_num = 82 -> [name |-> "AntChannelId", nums |-> (0..4)]
      [] mesg_num = 101 -> [name |-> "Length", nums |-> (0..7) \cup (9..12)
             \cup (18..21) \cup {253, 254}]
      [] mesg_num = 103 -> [name |-> "MonitoringInfo", nums |-> (3..5) \cup
             {0, 1, 253}]
      [] mesg_num = 106 -> [name |-> "SlaveDevice", nums |-> {0, 1}]
      [] mesg_num = 127 -> [name |-> "Connectivity", nums |-> (0..12)]
      [] mesg_num = 128 -> [name |-> "WeatherConditions", nums |-> (0..14)
             \cup {253}]
      [] mesg_num = 129 -> [name |-> "WeatherAlert", nums |-> (0..4) \cup
             {253}]
      [] mesg_num = 131 -> [name |-> "CadenceZone", nums |-> {0, 1, 254}]
      [] mesg_num = 132 -> [name |-> "Hr", nums |-> {0, 1, 6, 9, 10, 253}]
      [] mesg_num = 142 -> [name |-> "SegmentLap", nums |-> (0..83) \cup {253,
             254}]
      [] mesg_num = 145 -> [name |-> "MemoGlob", nums |-> (0..2) \cup {250}]
      [] mesg_num = 148 -> [name |-> "SegmentId", nums |-> (0..8)]
      [] mesg_num = 149 -> [name |-> "SegmentLeaderboardEntry", nums |->
             (0..5) \cup {254}]
      [] mesg_num = 150 -> [name |-> "SegmentPoint", nums |-> (1..5) \cup
             {254}]
      [] mesg_num = 151 -> [name |-> "SegmentFile", nums |-> (7..11) \cup {1,
             3, 4, 254}]
      [] mesg_num = 158 -> [name |-> "WorkoutSession", nums |-> (0..5) \cup
             {254}]
      [] mesg_num = 159 -> [name |-> "WatchfaceSettings", nums |-> {0, 1,
             254}]
      [] mesg_num = 160 -> [name |-> "GpsMetadata", nums |-> (0..7) \cup
             {253}]
      [] mesg_num = 161 -> [name |-> "CameraEvent", nums |-> (0..3) \cup
             {253}]
      [] mesg_num = 162 -> [name |-> "TimestampCorrelation", nums |-> (0..5)
             \cup {253}]
      [] mesg_num = 164 -> [name |-> "GyroscopeData", nums |-> (0..7) \cup
             {253}]
      [] mesg_num = 165 -> [name |-> "AccelerometerData", nums |-> (0..10)
             \cup {253}]
      [] mesg_num = 167 -> [name |-> "ThreeDSensorCalibration", nums |->
             (0..5) \cup {253}]
      [] mesg_num = 169 -> [name |-> "VideoFrame", nums |-> {0, 1, 253}]
      [] mesg_num = 174 -> [name |-> "ObdiiData", nums |-> (0..7) \cup {253}]
      [] mesg_num = 177 -> [name |-> "NmeaSentence", nums |-> {0, 1, 253}]
      [] mesg_num = 178 -> [name |-> "AviationAttitude", nums |-> (0..10) \cup
             {253}]
      [] mesg_num = 184 -> [name |-> "Video", nums |-> (0..2)]
      [] mesg_num = 185 -> [name |-> "VideoTitle", nums |-> {0, 1, 254}]
      [] mesg_num = 186 -> [name |-> "VideoDescription", nums |-> {0, 1, 254}]
      [] mesg_num = 187 -> [name |-> "VideoClip", nums |-> (0..4) \cup {6, 7}]
      [] mesg_num = 188 -> [name |-> "OhrSettings", nums |-> {0}]
      [] mesg_num = 200 -> [name |-> "ExdScreenConfiguration", nums |->
             (0..3)]
      [] mesg_num = 201 -> [name |-> "ExdDataFieldConfiguration", nums |->
             (0..5)]
      [] mesg_num = 202 -> [name |-> "ExdDataConceptConfiguration", nums |->
             (0..6) \cup (8..11)]
      [] mesg_num = 206 -> [name |-> "FieldDescription", nums |-> (0..10) \cup
             (13..15)]
      [] mesg_num = 207 -> [name |-> "DeveloperDataId", nums |-> (0..4)]
      [] mesg_num = 208 -> [name |-> "MagnetometerData", nums |-> (0..7) \cup
             {253}]
      [] mesg_num = 209 -> [name |-> "BarometerData", nums |-> (0..2) \cup
             {253}]
      [] mesg_num = 210 -> [name |-> "OneDSensorCalibration", nums |-> (0..4)
             \cup {253}]
      [] mesg_num = 225 -> [name |-> "Set", nums |-> (3..11) \cup {0, 254}]
      [] mesg_num = 227 -> [name |-> "StressLevel", nums |-> {0, 1}]
      [] mesg_num = 258 -> [name |-> "DiveSettings", nums |-> (0..20) \cup
             {254}]
      [] mesg_num = 259 -> [name |-> "DiveGas", nums |-> (0..2) \cup {254}]
      [] mesg_num = 262 -> [name |-> "DiveAlarm", nums |-> (0..5) \cup {254}]
      [] mesg_num = 264 -> [name |-> "ExerciseTitle", nums |-> (0..2) \cup
             {254}]
      [] mesg_num = 268 -> [name |-> "DiveSummary", nums |-> (0..11) \cup
             {253}]

\* The decode of a message of the profile whose fields this model does not
\* decode: a known field number gives a field of the message, any other
\* the message's Unknown variant.
Profile_decode(mesg_num, buffer, field_def_num) ==
    IF field_def_num \in ProfileMessage(mesg_num).nums
    THEN OtherField(ProfileMessage(mesg_num).name, field_def_num)
    ELSE UnknownField(ProfileMessage(mesg_num).name, buffer, field_def_num)

(***************************************************************************)
(* Event::decode (global message 21)                                       *)
(***************************************************************************)
EventFieldNums == (0..4) \cup (7..13) \cup {253}

Event_decode(buffer, field_def_num, T) ==
    IF field_def_num \in EventFieldNums
    THEN OtherField("Event", field_def_num)
    ELSE UnknownField("Event", buffer, field_def_num)

\* Message::Unknown losing the bytes of the field.
Message_Unknown_empty(buffer, mesg_num, field_def_num) ==
    POk([msg |-> "Unknown", data |-> <<>>, mesg_num |-> mesg_num,
         field_def_num |-> field_def_num])

\* The `_ =>` arm of Message::decode: a global message number that is not in
\* the registry.
Message_Unknown(buffer, mesg_num, field_def_num) ==
    POk([msg |-> "Unknown", data |-> buffer, mesg_num |-> mesg_num,
         field_def_num |-> field_def_num])

Message_decode(buffer, mesg_num, field_def_num, T) ==
    CASE mesg_num = 0 -> FileId_decode(buffer, field_def_num, T)
      [] mesg_num = 20 -> profile_Record_decode(buffer, field_def_num, T)
      [] mesg_num = 21 -> Event_decode(buffer, field_def_num, T)
      [] mesg_num \in MesgNums \ {0, 20, 21} ->
           Profile_decode(mesg_num, buffer, field_def_num)
      [] OTHER -> Message_Unknown(buffer, mesg_num, field_def_num)

(***************************************************************************)
(* Data::decode                                                            *)
(*                                                                         *)
(* Beside the decoded messages the result carries `reads`, the history of  *)
(* the read calls made: for each field read, the size asked for, the       *)
(* number of bytes the source gave and the buffer handed to the profile.   *)
(***************************************************************************)
DataOk(msgs, reads, rd) ==
    [ok |-> TRUE, val |-> msgs, err |-> <<>>, rd |-> rd, reads |-> reads]
DataErr(e, reads, rd) ==
    [ok |-> FALSE, val |-> <<>>, err |-> e, rd |-> rd, reads |-> reads]

\* buffer_len trusting the width of a uint32 base type (0x86).
buffer_len_by_type(field_def) ==
    IF field_def.base_type_num = 134 THEN 4 ELSE field_def.size

\* The length of the buffer of a field: `vec![0; field_def.size as usize]`.
buffer_len(field_def) == field_def.size

\* DataFields leaving out a field the profile fails on and going on with
\* the next.
RECURSIVE DataFields_lenient(_, _, _, _, _, _, _)
DataFields_lenient(rd, field_defs, i, global_mesg_num, T, messages, reads) ==
    IF i > Len(field_defs) THEN DataOk(messages, reads, rd)
    ELSE
    Bind(read(rd, field_defs[i].size), LAMBDA b :
    Bind(Append(reads, [size |-> field_defs[i].size,
                        nread |-> b.val.nread,
                        buffer |-> b.val.buffer]), LAMBDA reads2 :
    Bind(Message_decode(b.val.buffer, global_mesg_num, field_defs[i].num, T),
         LAMBDA message :
    DataFields_lenient(b.rd, field_defs, i + 1, global_mesg_num, T,
                       IF message.ok THEN Append(messages, message.val)
                       ELSE messages, reads2))))

\* The loops `for field_def in ....iter()`: the fields from the i-th on are
\* read and decoded in order; the first failure ends the loop.
RECURSIVE DataFields(_, _, _, _, _, _, _)
DataFields(rd, field_defs, i, global_mesg_num, T, messages, reads) ==
    IF i > Len(field_defs) THEN DataOk(messages, reads, rd)
    ELSE
    Bind(read(rd, buffer_len(field_defs[i])), LAMBDA b :
    Bind(Append(reads, [size |-> buffer_len(field_defs[i]),
                        nread |-> b.val.nread,
                        buffer |-> b.val.buffer]), LAMBDA reads2 :
    Bind(Message_decode(b.val.buffer, global_mesg_num, field_defs[i].num, T),
         LAMBDA message :
    IF ~message.ok THEN DataErr(message.err, reads2, b.rd)
    ELSE DataFields(b.rd, field_defs, i + 1, global_mesg_num, T,
                    Append(messages, message.val), reads2))))

\* Data::decode reading the developer fields before the regular ones.
Data_decode_dev_first(rd, definition, T) ==
    IF ~IsSome(definition.devfield_defs)
    THEN DataFields(rd, definition.field_defs, 1,
                    definition.global_mesg_num, T, <<>>, <<>>)
    ELSE Bind(DataFields(rd, Unwrap(definition.devfield_defs), 1,
                         definition.global_mesg_num, T, <<>>, <<>>),
              LAMBDA dev :
                 IF ~dev.ok THEN dev
                 ELSE DataFields(dev.rd, definition.field_defs, 1,
                                 definition.global_mesg_num, T,
                                 dev.val, dev.reads))

Data_decode(rd, definition, T) ==
    Bind(DataFields(rd, definition.field_defs, 1,
                    definition.global_mesg_num, T, <<>>, <<>>),
         LAMBDA regular :
            IF ~regular.ok THEN regular
            ELSE IF IsSome(definition.devfield_defs)
                 THEN DataFields(regular.rd,
                                 Unwrap(definition.devfield_defs), 1,
                                 definition.global_mesg_num, T,
                                 regular.val, regular.reads)
                 ELSE regular)

(***************************************************************************)
(* Record::decode                                                          *)
(*                                                                         *)
(* local_mesgs is the table of the driver, a function from the local       *)
(* message numbers that have a definition to that definition.  The result  *)
(* also tells the header decoded (if any), the definition looked up (if    *)
(* any) and the reads of the data decode.                                  *)
(***************************************************************************)
RecOk(header, content, definition, reads, rd) ==
    [ok |-> TRUE, val |-> [header |-> header, content |-> content],
     err |-> <<>>, rd |-> rd, header |-> Some(header),
     definition |-> definition, reads |-> reads]
RecErr(e, header, definition, reads, rd) ==
    [ok |-> FALSE, val |-> <<>>, err |-> e, rd |-> rd, header |-> header,
     definition |-> definition, reads |-> reads]

\* lookup_definition falling back on slot 0 when the slot has no definition.
lookup_definition_fallback(table, local_mesg_num) ==
    IF local_mesg_num \in DOMAIN table THEN Some(table[local_mesg_num])
    ELSE IF 0 \in DOMAIN table THEN Some(table[0])
    ELSE None

\* lookup_definition with the local message number cut to one bit.
lookup_definition_masked(table, local_mesg_num) ==
    IF (local_mesg_num % 2) \in DOMAIN table
    THEN Some(table[local_mesg_num % 2])
    ELSE None

\* local_mesgs.get(&local_mesg_num)
lookup_definition(table, local_mesg_num) ==
    IF local_mesg_num \in DOMAIN table THEN Some(table[local_mesg_num])
    ELSE None

\* byte_order ignoring the architecture.
byte_order_fixed(definition) == "LittleEndian"

\* The byte order Data::decode is instantiated with: `match definition.arch`.
byte_order(definition) ==
    IF definition.arch = "LittleEndian" THEN "LittleEndian" ELSE "BigEndian"

\* DefinitionContent handing on the error of Definition::decode as it is.
DefinitionContent_bare(rd, header) ==
    Bind(Definition_decode(rd, header.has_dev_fields), LAMBDA d :
        IF ~d.ok
        THEN RecErr(d.err, Some(header), None, <<>>, d.rd)
        ELSE RecOk(header, [type |-> "Definition", def |-> d.val],
                   None, <<>>, d.rd))

\* The arms of `match header` in Record::decode.
DefinitionContent(rd, header) ==
    Bind(Definition_decode(rd, header.has_dev_fields), LAMBDA d :
        IF ~d.ok
        THEN RecErr(Error_decoding("definition message", d.err),
                    Some(header), None, <<>>, d.rd)
        ELSE RecOk(header, [type |-> "Definition", def |-> d.val],
                   None, <<>>, d.rd))

DataContent(rd, header, table) ==
    Bind(lookup_definition(table, header.local_mesg_num), LAMBDA found :
    IF ~IsSome(found)
    THEN RecErr(Error_missing_definition(header.local_mesg_num),
                Some(header), None, <<>>, rd)
    ELSE
    Bind(Data_decode(rd, Unwrap(found), byte_order(Unwrap(found))),
         LAMBDA d :
    IF ~d.ok
    THEN RecErr(Error_decoding("data message", d.err),
                Some(header), found, d.reads, d.rd)
    ELSE RecOk(header, [type |-> "Data", messages |-> d.val],
               found, d.reads, d.rd)))

\* CompressedTimestampContent looking up the definition of the header's
\* slot as the data arm does.
CompressedTimestampContent_lookup(rd, header, table) ==
    IF ~IsSome(lookup_definition(table, header.local_mesg_num))
    THEN RecErr(Error_missing_definition(header.local_mesg_num),
                Some(header), None, <<>>, rd)
    ELSE RecOk(header, [type |-> "CompressedTimestamp"],
               lookup_definition(table, header.local_mesg_num), <<>>, rd)

\* CompressedTimestampContent reading a payload laid out by the definition
\* on the header's slot, when there is one.
CompressedTimestampContent_payload(rd, header, table) ==
    IF header.local_mesg_num \in DOMAIN table
    THEN DataContent(rd, header, table)
    ELSE RecOk(header, [type |-> "CompressedTimestamp"], None, <<>>, rd)

\* The arm `Header::CompressedTimestamp { .. } => Message::CompressedTimestamp`:
\* nothing is read and the table is not consulted.
CompressedTimestampContent(rd, header, table) ==
    RecOk(header, [type |-> "CompressedTimestamp"], None, <<>>, rd)

Record_decode(rd, table) ==
    Bind(Header_decode(rd), LAMBDA h :
        IF ~h.ok
        THEN RecErr(Error_decoding("header", h.err), None, None, <<>>, h.rd)
        ELSE CASE h.val.type = "Definition" -> DefinitionContent(h.rd, h.val)
               [] h.val.type = "Data" -> DataContent(h.rd, h.val, table)
               [] h.val.type = "CompressedTimestamp" ->
                    CompressedTimestampContent(h.rd, h.val, table))

(***************************************************************************)
(* Inputs.  A stream is made of chunks: a header byte followed by a body.  *)
(* Definition bodies are laid out as the wire format lays them out, data   *)
(* bodies are runs of bytes; every prefix of a chunk is a chunk too (the   *)
(* source may end anywhere).                                               *)
(***************************************************************************)
RECURSIVE Concat(_)
Concat(ss) == IF ss = <<>> THEN <<>> ELSE ss[1] \o Concat(Tail(ss))

SeqsUpTo(S, n) == UNION {[1..k -> S] : k \in 0..n}

Prefixes(s) == {Take(s, n) : n \in 0..Len(s)}

DefinitionBodies(reserved, archs, gmns, fields, devfields, dev) ==
    {<<r, a>> \o g \o <<Len(f)>> \o Concat(f)
        \o (IF dev THEN <<Len(d)>> \o Concat(d) ELSE <<>>) :
        r \in reserved, a \in archs, g \in gmns,
        f \in SeqsUpTo(fields, MaxFields),
        d \in IF dev THEN SeqsUpTo(devfields, MaxDevFields) ELSE {<<>>}}

\* The chunks of the driver's stream.
\*   definitions: header 0x40 / 0x41 (slot 0 / 1), architecture 0, 1 or 2,
\*     global message 0 (FileId), one field: Product (field 2, 2 bytes,
\*     base type uint16 = 0x84); header 0x60 (slot 0, developer fields):
\*     the same followed by one developer field of 1 byte;
\*   data: header 0x00 / 0x01 / 0x32 (slot 0 / 1 / 2, the last with bits 4
\*     and 5 set) and the bytes C4 09 (2500 little-endian, 50185
\*     big-endian) and FF;
\*   compressed timestamp: header 0xA3;
\*   every prefix of the data chunks and of one definition chunk.
StreamDefinitions ==
    {<<h, 0, a, 0, 0, 1, 2, 2, 132>> : h \in {64, 65}, a \in {0, 1, 2}}
    \cup {<<96, 0, a, 0, 0, 1, 2, 2, 132, 1, 7, 1, 0>> : a \in {0, 1}}
StreamData == {<<h, 196, 9, 255>> : h \in {0, 1, 50}}
StreamCompressed == {<<163>>}

StreamChunks ==
    StreamDefinitions \cup StreamCompressed
    \cup UNION {Prefixes(c) : c \in StreamData}
    \cup Prefixes(<<96, 0, 0, 0, 0, 1, 2, 2, 132, 1, 7, 1, 0>>)

BlockSizes == {0, 3}
DataSizes == {12, 64}

(***************************************************************************)
(* The driver (File::decode): it owns the local-message table and the list *)
(* of records, and calls Record::decode while the bytes consumed are fewer *)
(* than data_size.                                                         *)
(***************************************************************************)
NoCall == [called |-> FALSE]
NoUnit == [op |-> "none"]

Init ==
    /\ stream = <<>>
    /\ eof = FALSE
    /\ blk \in BlockSizes
    /\ data_size \in DataSizes
    /\ local_mesgs = <<>>
    /\ records = <<>>
    /\ status = "running"
    /\ last = NoCall
    /\ unit = NoUnit
    /\ dump = None

\* insert emptying the other slots.
insert_alone(table, local_mesg_num, definition) ==
    [n \in {local_mesg_num} |-> definition]

\* local_mesgs.insert(local_mesg_num, definition)
insert(table, local_mesg_num, definition) ==
    [n \in DOMAIN table \cup {local_mesg_num} |->
        IF n = local_mesg_num THEN definition ELSE table[n]]

\* One turn of the loop: a record is decoded from the bytes the source holds
\* (chunk); a definition is stored on its slot, the record is pushed; an
\* error ends the decoding of the file.
DecodeRecord ==
    /\ status = "running"
    /\ Len(stream) < data_size
    /\ Len(records) < MaxRecords
    /\ \E chunk \in (IF eof THEN {<<>>} ELSE StreamChunks) :
       \E res \in {Record_decode(Reader(chunk, Len(stream), blk),
                                 local_mesgs)} :
       \E used \in {Take(chunk, Len(chunk) - Len(res.rd.data))} :
             /\ stream' = stream \o used
             /\ eof' = (eof \/ res.rd.hit)
             /\ last' = [called |-> TRUE, table |-> local_mesgs,
                         start |-> Len(stream), used |-> used,
                         ok |-> res.ok, err |-> res.err, record |-> res.val,
                         header |-> res.header,
                         definition |-> res.definition, reads |-> res.reads]
             /\ IF res.ok
                THEN /\ records' = Append(records, res.val)
                     /\ local_mesgs' =
                          IF res.val.content.type = "Definition"
                          THEN insert(local_mesgs,
                                      res.val.header.local_mesg_num,
                                      res.val.content.def)
                          ELSE local_mesgs
                     /\ status' = "running"
                ELSE /\ records' = records
                     /\ local_mesgs' = local_mesgs
                     /\ status' = "failed"
    /\ UNCHANGED <<blk, data_size, unit, dump>>

\* The loop ends when data_size bytes have been consumed.
Finish ==
    /\ status = "running"
    /\ Len(stream) >= data_size
    /\ status' = "done"
    /\ UNCHANGED <<stream, eof, blk, data_size, local_mesgs, records, last,
                   unit, dump>>

(***************************************************************************)
(* The dump program (examples/dump.rs): main decodes the file, prints the  *)
(* records or the error, and returns.                                      *)
(***************************************************************************)
\* pretty_error: the text of the error, then for each cause down the chain
\* the separator ": " and the text of the cause.  The text of a layer
\* (to_string) stands for itself.
RECURSIVE pretty_error(_)
pretty_error(err) ==
    IF Len(err) <= 1 THEN err
    ELSE <<err[1], ": ">> \o pretty_error(Tail(err))

\* The exit code of a process whose main returns.
ReturnFromMain == 0

\* `match fit::File::decode(&mut reader)`: the Ok arm prints a line for each
\* record on the standard output, the Err arm prints the error on the
\* standard error; after either main returns.
dump_main(ok, recs, err) ==
    IF ok
    THEN [stdout |-> recs, stderr |-> <<>>, exit_code |-> ReturnFromMain]
    ELSE [stdout |-> <<>>, stderr |-> pretty_error(err),
          exit_code |-> ReturnFromMain]

\* The program ends once File::decode has returned.
DumpExit ==
    /\ status \in {"done", "failed"}
    /\ dump = None
    /\ dump' = Some(dump_main(status = "done", records, last.err))
    /\ UNCHANGED <<stream, eof, blk, data_size, local_mesgs, records, status,
                   last, unit>>

Next == DecodeRecord \/ Finish \/ DumpExit

Spec == Init /\ [][Next]_vars

\* The driver on files whose data_size is at most MaxRecords: a record
\* takes at least one byte, so the loop ends before MaxRecords records are
\* decoded.  The program is sequential code that keeps running: a step
\* that can be taken is taken.
LiveDataSizes == 1..MaxRecords

LiveInit ==
    /\ stream = <<>>
    /\ eof = FALSE
    /\ blk \in BlockSizes
    /\ data_size \in LiveDataSizes
    /\ local_mesgs = <<>>
    /\ records = <<>>
    /\ status = "running"
    /\ last = NoCall
    /\ unit = NoUnit
    /\ dump = None

LiveSpec == LiveInit /\ [][Next]_vars /\ WF_vars(Next)

(***************************************************************************)
(* The decode functions on their own: Header::decode on every byte,        *)
(* Definition::decode on definition bodies with every architecture byte    *)
(* and cut at every length, Data::decode on every definition a definition  *)
(* body decodes to, Message::decode on every field number of every        *)
(* message, Record::decode on compressed-timestamp headers, Field::value   *)
(* and Field::is_valid on decoded fields.  unit is [op, in, out]: the      *)
(* function, its arguments and (once applied) its result.                  *)
(***************************************************************************)
Byte == 0..255

\* Wire field definitions <<number, size, base type id>>: Altitude (uint16)
\* and HeartRate (uint8) of the Record message and an unknown field of no
\* byte.
UnitFields == {<<2, 2, 132>>, <<3, 1, 2>>, <<200, 0, 13>>}
\* Wire developer field definitions <<number, size, developer data index>>.
UnitDevFields == {<<7, 1, 0>>, <<8, 2, 1>>}
\* Global message number 20 (Record) in one byte order, 5120 in the other.
UnitGmnBytes == {<<20, 0>>, <<0, 20>>}

UnitDefinitionBodies(reserved, dev) ==
    DefinitionBodies(reserved, {0, 1}, UnitGmnBytes, UnitFields,
                     UnitDevFields, dev)

\* The definitions Definition::decode produces.
UnitDefinitions ==
    UNION {{Definition_decode(Reader(b, 0, 0), dev).val :
               b \in UnitDefinitionBodies({0}, dev)} : dev \in BOOLEAN}

\* The bytes of a data payload: C4 09 is 2500 little-endian, FF the invalid
\* value of a uint8.
PayloadBytes == <<196, 9, 255, 65, 1, 128, 7>>
Payload(n) == [i \in 1..n |-> PayloadBytes[((i - 1) % Len(PayloadBytes)) + 1]]
MaxPayload == 2 * MaxFields + 2 * MaxDevFields

UnitOffsets == {1}

UnitInputs ==
    {[op |-> "header", rd |-> Reader(d, 0, 0)] :
        d \in {<<b>> : b \in Byte} \cup {<<>>}}
    \cup
    {[op |-> "definition", rd |-> Reader(<<7, a, 20, 0, 1, 2, 2, 132, 0>>, 0, 0),
      has_dev_fields |-> dev] : a \in Byte, dev \in BOOLEAN}
    \cup
    UNION {{[op |-> "definition", rd |-> Reader(p, 0, 0),
             has_dev_fields |-> dev] :
               p \in UNION {Prefixes(b) :
                               b \in UnitDefinitionBodies({0, 7}, dev)}} :
           dev \in BOOLEAN}
    \cup
    {[op |-> "data", rd |-> Reader(Payload(n), pos, b), definition |-> d,
      T |-> byte_order(d)] :
        n \in 0..MaxPayload, pos \in UnitOffsets, b \in BlockSizes,
        d \in UnitDefinitions}

\* Global message numbers that are not in the registry.
UnknownMesgNums == {11, 22, 5120, 65535}
\* The buffer of the fields handed to Message::decode on its own (a 32-bit
\* value read from it in either byte order is below 2^31).
MessageBuffers == {<<65, 9, 255, 1>>}

\* Message::decode on every field definition number of every message of the
\* registry and of the unknown messages.
MessageInputs ==
    {[op |-> "message", buffer |-> b, mesg_num |-> g, field_def_num |-> n,
      T |-> t] :
        b \in MessageBuffers, g \in MesgNums \cup UnknownMesgNums,
        n \in Byte, t \in {"LittleEndian"}}
    \cup
    {[op |-> "message", buffer |-> b, mesg_num |-> g, field_def_num |-> n,
      T |-> t] :
        b \in MessageBuffers, g \in {0, 20}, n \in Byte, t \in {"BigEndian"}}

\* Record::decode on its own: a compressed-timestamp header (slot 0, 1 or
\* 3) or a data header (slot 1 or 0), followed by the bytes of what may be a
\* payload or the next record, with a table that is empty or holds a
\* definition of one 2-byte field on slot 1, or on slots 0 and 1.
RecordHeaders == {131, 163, 255, 1, 0}
RecordFollowers == {<<>>, <<64>>, <<196, 9, 163>>}
RecordDefinition ==
    Definition_decode(Reader(<<0, 0, 20, 0, 1, 2, 2, 132>>, 0, 0), FALSE).val
RecordTables ==
    {<<>>, 1 :> RecordDefinition, 0 :> RecordDefinition @@ 1 :> RecordDefinition}

\* Definition records, header first: slot 0 with two fields; slot 0 with
\* the developer flag, big-endian, one field and two developer fields;
\* slot 1 with architecture byte 2; each cut at every length (the empty
\* source among them) and followed by nothing or by one more byte.
DefinitionRecords ==
    {<<64, 0, 0, 20, 0, 2, 2, 2, 132, 3, 1, 2>>,
     <<96, 7, 1, 0, 20, 1, 2, 2, 132, 2, 7, 1, 0, 8, 2, 1>>,
     <<65, 0, 2, 20, 0, 0>>}
\* Data records of a FileId definition whose first field is the string
\* ProductName: header for slot 1, then FF FE (not UTF-8) or 61 00.
StringTable ==
    1 :> Definition_decode(Reader(<<0, 0, 0, 0, 2, 8, 2, 7, 2, 2, 132>>,
                                  0, 0), FALSE).val
StringRecords == {<<1, 255, 254, 196, 9>>, <<1, 97, 0, 196, 9>>, <<1, 255>>}

RecordInputs ==
    {[op |-> "record", rd |-> Reader(<<h>> \o f, 0, 0), table |-> t] :
        h \in RecordHeaders, f \in RecordFollowers, t \in RecordTables}
    \cup
    {[op |-> "record", rd |-> Reader(p, 0, 0), table |-> t] :
        p \in UNION {Prefixes(d) \cup {d \o <<1>>} : d \in DefinitionRecords},
        t \in RecordTables}
    \cup
    {[op |-> "record", rd |-> Reader(p, 0, 0), table |-> StringTable] :
        p \in StringRecords}

\* A FileId data record: the definition (global message 0, little-endian)
\* declares Type, Manufacturer, Product, SerialNumber, TimeCreated, Number
\* and ProductName (4 bytes); the payload is file type 4, manufacturer 1,
\* product 2500, serial and time of four bytes each, number 0, name "ab".
FileIdDefinition ==
    Definition_decode(
        Reader(<<0, 0, 0, 0, 7, 0, 1, 0, 1, 2, 132, 2, 2, 132, 3, 4, 140,
                 4, 4, 134, 5, 2, 132, 8, 4, 7>>, 0, 0), FALSE).val
FileIdPayload ==
    <<4, 1, 0, 196, 9, 1, 2, 3, 4, 5, 6, 7, 8, 0, 0, 97, 98, 0, 0>>

FileIdInputs ==
    {[op |-> "data", rd |-> Reader(FileIdPayload, 0, b),
      definition |-> FileIdDefinition, T |-> byte_order(FileIdDefinition)] :
        b \in BlockSizes}

\* Data records with a string field: FileId with ProductName (2 bytes)
\* first or between two Product fields; the payloads hold FF FE (not UTF-8)
\* or 61 00 ("a") where the string is.
StringDefinitions ==
    {Definition_decode(Reader(b, 0, 0), FALSE).val :
        b \in {<<0, 0, 0, 0, 2, 8, 2, 7, 2, 2, 132>>,
               <<0, 0, 0, 0, 3, 2, 2, 132, 8, 2, 7, 2, 2, 132>>}}
StringPayloads ==
    {<<255, 254, 196, 9, 1, 0>>, <<97, 0, 196, 9, 1, 0>>,
     <<196, 9, 255, 254, 1, 0>>, <<196, 9, 97, 0, 1, 0>>}

StringInputs ==
    {[op |-> "data", rd |-> Reader(p, 0, 0), definition |-> d,
      T |-> byte_order(d)] : p \in StringPayloads, d \in StringDefinitions}

\* Field::value and Field::is_valid on decoded fields: Altitude (scale 5,
\* offset 500) with raw 2500, 2501, 0 and 65535, HeartRate (no scale, no
\* offset) with raw 65 and 255, and Product of FileId (no annotation).
ValueBuffers == {<<196, 9>>, <<9, 196>>, <<197, 9>>, <<0, 0>>, <<255, 255>>,
                 <<65, 0>>, <<255, 0>>}
ValueFields == {<<20, 2>>, <<20, 3>>, <<0, 2>>}

ValueInputs ==
    {[op |-> "value",
      field |-> Message_decode(b, gf[1], gf[2], t).val] :
        b \in ValueBuffers, gf \in ValueFields,
        t \in {"LittleEndian", "BigEndian"}}

UnitInit ==
    /\ unit \in {[op |-> i.op, in |-> i, out |-> None] :
                    i \in UnitInputs \cup MessageInputs \cup RecordInputs
                          \cup ValueInputs \cup FileIdInputs
                          \cup StringInputs}
    /\ stream = <<>>
    /\ eof = FALSE
    /\ blk = 0
    /\ data_size = 0
    /\ local_mesgs = <<>>
    /\ records = <<>>
    /\ status = "unit"
    /\ last = NoCall
    /\ dump = None

UnitFrame ==
    UNCHANGED <<stream, eof, blk, data_size, local_mesgs, records, status,
                last, dump>>

ApplyHeaderDecode ==
    /\ unit.op = "header" /\ unit.out = None
    /\ unit' = [unit EXCEPT !.out = Some(Header_decode(unit.in.rd))]
    /\ UnitFrame

ApplyDefinitionDecode ==
    /\ unit.op = "definition" /\ unit.out = None
    /\ unit' = [unit EXCEPT !.out =
                  Some(Definition_decode(unit.in.rd, unit.in.has_dev_fields))]
    /\ UnitFrame

ApplyDataDecode ==
    /\ unit.op = "data" /\ unit.out = None
    /\ unit' = [unit EXCEPT !.out =
                  Some(Data_decode(unit.in.rd, unit.in.definition, unit.in.T))]
    /\ UnitFrame

ApplyMessageDecode ==
    /\ unit.op = "message" /\ unit.out = None
    /\ unit' = [unit EXCEPT !.out =
                  Some(Message_decode(unit.in.buffer, unit.in.mesg_num,
                                      unit.in.field_def_num, unit.in.T))]
    /\ UnitFrame

ApplyRecordDecode ==
    /\ unit.op = "record" /\ unit.out = None
    /\ unit' = [unit EXCEPT !.out =
                  Some(Record_decode(unit.in.rd, unit.in.table))]
    /\ UnitFrame

ApplyFieldValue ==
    /\ unit.op = "value" /\ unit.out = None
    /\ unit' = [unit EXCEPT !.out =
                  Some([value |-> Field_value(unit.in.field),
                        is_valid |-> Field_is_valid(unit.in.field)])]
    /\ UnitFrame

UnitNext ==
    \/ ApplyFieldValue
    \/ ApplyRecordDecode
    \/ ApplyHeaderDecode
    \/ ApplyDefinitionDecode
    \/ ApplyDataDecode
    \/ ApplyMessageDecode

UnitSpec == UnitInit /\ [][UnitNext]_vars

(***************************************************************************)
(* Properties.                                                             *)
(***************************************************************************)
HeaderApplied == unit.op = "header" /\ unit.out # None
DefinitionApplied == unit.op = "definition" /\ unit.out # None
DataApplied == unit.op = "data" /\ unit.out # None
MessageApplied == unit.op = "message" /\ unit.out # None
RecordApplied == unit.op = "record" /\ unit.out # None
ValueApplied == unit.op = "value" /\ unit.out # None

UnitOut == Unwrap(unit.out)
UnitBytes == unit.in.rd.data
\* Bytes the applied function took from the source.
UnitConsumed == UnitOut.rd.pos - unit.in.rd.pos

\* All field definitions of a definition, regular fields first.
AllFieldDefs(definition) ==
    definition.field_defs \o
    (IF IsSome(definition.devfield_defs)
     THEN Unwrap(definition.devfield_defs) ELSE <<>>)

RECURSIVE SumSizes(_)
SumSizes(field_defs) ==
    IF field_defs = <<>> THEN 0
    ELSE field_defs[1].size + SumSizes(Tail(field_defs))

IsDefinitionRecord(r, slot) ==
    r.content.type = "Definition" /\ r.header.local_mesg_num = slot

\* C1: every data record the driver emits has an earlier definition record
\* with the same local message number in the list of records, and it was
\* decoded with the latest such definition (no definition on that slot lies
\* between the two).
C1_DataAfterDefinition ==
    \A i \in 1..Len(records) :
        records[i].content.type = "Data" =>
            \E j \in 1..(i - 1) :
                /\ IsDefinitionRecord(records[j], records[i].header.local_mesg_num)
                /\ \A k \in (j + 1)..(i - 1) :
                     ~IsDefinitionRecord(records[k],
                                         records[i].header.local_mesg_num)
                /\ (i = Len(records) /\ last.ok) =>
                     last.definition = Some(records[j].content.def)

\* A slot is defined twice with different architectures and a data record
\* on it is then decoded with the second definition.
C1_Witness ==
    /\ Len(records) >= 3
    /\ last.called /\ last.ok
    /\ LET n == Len(records)
       IN  /\ records[n].content.type = "Data"
           /\ IsDefinitionRecord(records[n - 1], records[n].header.local_mesg_num)
           /\ IsDefinitionRecord(records[n - 2], records[n].header.local_mesg_num)
           /\ records[n - 1].content.def # records[n - 2].content.def
           /\ last.definition = Some(records[n - 1].content.def)

\* C2: on a byte with bit 7 clear Header::decode succeeds; bit 6 set gives
\* a Definition header with local_mesg_num = bits 3..0 and has_dev_fields =
\* bit 5, bit 6 clear gives a Data header with local_mesg_num = bits 3..0
\* and nothing else.
C2_NormalHeader ==
    (HeaderApplied /\ Len(UnitBytes) = 1 /\ UnitBytes[1] < 128) =>
        LET b == UnitBytes[1]
        IN  /\ UnitOut.ok
            /\ UnitOut.val =
                 IF b >= 64
                 THEN [type |-> "Definition", local_mesg_num |-> b % 16,
                       has_dev_fields |-> (b >= 96)]
                 ELSE [type |-> "Data", local_mesg_num |-> b % 16]

\* Byte 0x3A (bits 5 and 4 set) decodes to a Data header for slot 10.
C2_Witness ==
    /\ HeaderApplied /\ UnitBytes = <<58>>
    /\ UnitOut.val = [type |-> "Data", local_mesg_num |-> 10]

\* C3: on a byte with bit 7 set Header::decode yields a CompressedTimestamp
\* header with local_mesg_num = bits 6..5 and time_offset = bits 4..0; 0xA3
\* gives local_mesg_num 1 and time_offset 3.
C3_CompressedHeader ==
    (HeaderApplied /\ Len(UnitBytes) = 1 /\ UnitBytes[1] >= 128) =>
        LET b == UnitBytes[1]
        IN  /\ UnitOut.ok
            /\ UnitOut.val = [type |-> "CompressedTimestamp",
                              local_mesg_num |-> (b - 128) \div 32,
                              time_offset |-> b % 32]
            /\ b = 163 => (UnitOut.val.local_mesg_num = 1
                           /\ UnitOut.val.time_offset = 3)

C3_Witness ==
    /\ HeaderApplied /\ UnitBytes = <<163>>
    /\ UnitOut.ok /\ UnitOut.val.type = "CompressedTimestamp"
    /\ UnitOut.val.time_offset = 3

\* C4: a Data header whose local message number n has no entry in the
\* table makes Record::decode fail with MissingDefinition(n), and only the
\* header byte is consumed.
C4_MissingDefinition ==
    (/\ last.called
     /\ Len(last.used) >= 1
     /\ last.used[1] < 64
     /\ (last.used[1] % 16) \notin DOMAIN last.table) =>
        /\ ~last.ok
        /\ last.err = <<[kind |-> "MissingDefinition", what |-> "",
                         n |-> last.used[1] % 16]>>
        /\ Len(last.used) = 1
        /\ status = "failed"

\* The table holds a definition, but not on the slot of the data header.
C4_Witness ==
    /\ last.called /\ ~last.ok
    /\ DOMAIN last.table # {}
    /\ last.used = <<1>>
    /\ last.err[1].kind = "MissingDefinition" /\ last.err[1].n = 1

\* C5: an architecture byte n outside {0, 1} makes Definition::decode fail
\* with UnknownArchitecture(n), for every n in 2..255, after two bytes (the
\* reserved byte and the architecture byte); 0 selects little-endian and 1
\* big-endian (also for the global message number).
C5_UnknownArchitecture ==
    (DefinitionApplied /\ Len(UnitBytes) >= 2) =>
        LET n == UnitBytes[2]
        IN  /\ n \notin {0, 1} =>
                 /\ ~UnitOut.ok
                 /\ UnitOut.err = <<[kind |-> "UnknownArchitecture",
                                     what |-> "", n |-> n]>>
                 /\ UnitConsumed = 2
            /\ (n \in {0, 1} /\ UnitOut.ok) =>
                 /\ UnitOut.val.arch =
                      (IF n = 0 THEN "LittleEndian" ELSE "BigEndian")
                 /\ UnitOut.val.global_mesg_num =
                      (IF n = 0 THEN UnitBytes[3] + 256 * UnitBytes[4]
                       ELSE 256 * UnitBytes[3] + UnitBytes[4])

C5_Witness ==
    /\ DefinitionApplied /\ Len(UnitBytes) >= 5 /\ UnitBytes[2] = 254
    /\ ~UnitOut.ok /\ UnitOut.err[1].kind = "UnknownArchitecture"
    /\ UnitOut.err[1].n = 254

\* The bytes of the source from which field i of a data record is to be
\* read when every field before it took its declared size.
FieldRun(bytes, field_defs, i) ==
    LET off == SumSizes(Take(field_defs, i - 1))
    IN  SubSeq(bytes, off + 1, off + field_defs[i].size)

\* C6: a successful Data::decode consumes the sum of the declared sizes of
\* the regular and developer fields, and each field's buffer holds the next
\* `size` bytes of the source, whatever the source.
C6_ExactReads ==
    (DataApplied /\ UnitOut.ok) =>
        LET defs == AllFieldDefs(unit.in.definition)
        IN  /\ UnitConsumed = SumSizes(defs)
            /\ Len(UnitOut.reads) = Len(defs)
            /\ \A i \in 1..Len(defs) :
                 UnitOut.reads[i].buffer = FieldRun(UnitBytes, defs, i)

\* C7: when the source ends before all declared field bytes of a data
\* record were read, Record::decode fails with UnexpectedEof, decoding of
\* the file stops and no record is emitted for it.
C7_EofIsAnError ==
    (/\ last.called
     /\ last.definition # None
     /\ Len(last.used) - 1 < SumSizes(AllFieldDefs(Unwrap(last.definition)))
     /\ eof) =>
        /\ ~last.ok
        /\ last.err[Len(last.err)].kind = "UnexpectedEof"
        /\ status = "failed"

\* Base-type ids, field numbers and global message numbers to compare with.
AltBaseTypes == {7, 134}
AltFieldNums == {2, 3, 200}
AltMesgNums == {0, 20, 5120}

WithBaseTypes(definition, bts) ==
    [definition EXCEPT !.field_defs =
        [i \in 1..Len(definition.field_defs) |->
            [definition.field_defs[i] EXCEPT !.base_type_num = bts[i]]]]

WithNumbers(definition, g, n) ==
    [definition EXCEPT
        !.global_mesg_num = g,
        !.field_defs = [i \in 1..Len(definition.field_defs) |->
                           [definition.field_defs[i] EXCEPT !.num = n]]]

\* What the source gave for each field read: size asked, bytes read, buffer.
IsPrefix(a, b) == Len(a) <= Len(b) /\ a = Take(b, Len(a))

\* C8: the buffer read for a field has the declared size; a definition that
\* differs only in base-type ids gives the same result (same bytes
\* consumed, same reads, same data record or error), and with other field
\* numbers or another global message number the reads made are the same.
C8_SizeIsAuthoritative ==
    DataApplied =>
        LET d == unit.in.definition
            defs == AllFieldDefs(d)
        IN  /\ \A i \in 1..Len(UnitOut.reads) :
                 /\ UnitOut.reads[i].size = defs[i].size
                 /\ Len(UnitOut.reads[i].buffer) = defs[i].size
            /\ \A bts \in [1..Len(d.field_defs) -> AltBaseTypes] :
                 Data_decode(unit.in.rd, WithBaseTypes(d, bts), unit.in.T)
                    = UnitOut
            /\ \A g \in AltMesgNums, n \in AltFieldNums :
                 \A o \in {Data_decode(unit.in.rd, WithNumbers(d, g, n),
                                       unit.in.T)} :
                     \/ IsPrefix(o.reads, UnitOut.reads)
                     \/ IsPrefix(UnitOut.reads, o.reads)

\* A data record of two regular fields of 2 and 1 bytes is decoded.
C8_Witness ==
    /\ DataApplied /\ UnitOut.ok
    /\ Len(unit.in.definition.field_defs) = 2
    /\ unit.in.definition.field_defs[1].size = 2
    /\ unit.in.definition.field_defs[2].size = 1
    /\ UnitConsumed = 3

\* C9: the multi-byte fields of a data record are decoded in the byte order
\* of the architecture of the definition stored on the record's slot:
\* little-endian for architecture 0, big-endian for architecture 1,
\* whatever the other slots hold.
C9_EndianOfOwnDefinition ==
    (last.called /\ last.ok /\ last.record.content.type = "Data") =>
        LET slot == last.record.header.local_mesg_num
            d == last.table[slot]
            msgs == last.record.content.messages
        IN  \A i \in 1..Len(msgs) :
                (msgs[i].variant = "Product") =>
                    LET buf == last.reads[i].buffer
                    IN  msgs[i].raw_value.raw =
                            IF d.arch = "LittleEndian"
                            THEN buf[1] + 256 * buf[2]
                            ELSE 256 * buf[1] + buf[2]

\* Slots 0 and 1 hold definitions of different architectures, the
\* big-endian one stored first, and a data record is decoded big-endian.
C9_Witness ==
    /\ last.called /\ last.ok /\ last.record.content.type = "Data"
    /\ DOMAIN last.table = {0, 1}
    /\ last.table[0].arch # last.table[1].arch
    /\ last.table[last.record.header.local_mesg_num].arch = "BigEndian"
    /\ Len(records) >= 3
    /\ records[Len(records) - 1].content.type = "Definition"
    /\ records[Len(records) - 1].content.def.arch = "LittleEndian"
    /\ last.used = <<last.used[1], 196, 9>>
    /\ last.record.content.messages[1].raw_value.raw = 50185

\* C10: a decoded data record has nfields + ndevfields messages; message i
\* is the profile decoding of the buffer read for field definition i with
\* the definition's global message number and that field's number, regular
\* fields first, then developer fields, each in definition order; when no
\* read came short the buffers are the consecutive byte runs of the source.
C10_MessagesInDefinitionOrder ==
    (DataApplied /\ UnitOut.ok) =>
        LET d == unit.in.definition
            nf == d.nfields
            nd == IF d.ndevfields = None THEN 0 ELSE d.ndevfields[1]
            msgs == UnitOut.val
            reads == UnitOut.reads
        IN  /\ Len(msgs) = nf + nd
            /\ Len(reads) = nf + nd
            /\ \A i \in 1..nf :
                 msgs[i] = Message_decode(reads[i].buffer, d.global_mesg_num,
                                          d.field_defs[i].num, unit.in.T).val
            /\ \A j \in 1..nd :
                 msgs[nf + j] =
                    Message_decode(reads[nf + j].buffer, d.global_mesg_num,
                                   d.devfield_defs[1][j].num, unit.in.T).val
            /\ (\A i \in 1..(nf + nd) : reads[i].nread = reads[i].size) =>
                 \A i \in 1..(nf + nd) :
                    reads[i].buffer = FieldRun(UnitBytes, AllFieldDefs(d), i)

\* Altitude, HeartRate and one developer field of a Record message, all
\* read in full.
C10_Witness ==
    /\ DataApplied /\ UnitOut.ok
    /\ unit.in.definition.global_mesg_num = 20
    /\ unit.in.definition.nfields = 2
    /\ unit.in.definition.ndevfields = <<1>>
    /\ Len(UnitOut.val) = 3
    /\ UnitOut.val[1].variant = "Altitude"
    /\ UnitOut.val[2].variant = "HeartRate"
    /\ UnitOut.val[3].variant = "Unknown"
    /\ \A i \in 1..3 : UnitOut.reads[i].nread = UnitOut.reads[i].size

\* C11: a field of a global message number that is not in the registry
\* decodes without error to Message::Unknown carrying the global message
\* number, the field definition number and the bytes of the buffer; in a
\* data record the buffer (and so the data) has the declared size of the
\* field.
C11_UnknownMessage ==
    /\ (MessageApplied /\ unit.in.mesg_num \notin MesgNums) =>
          /\ UnitOut.ok
          /\ UnitOut.val = [msg |-> "Unknown", data |-> unit.in.buffer,
                            mesg_num |-> unit.in.mesg_num,
                            field_def_num |-> unit.in.field_def_num]
    /\ (DataApplied /\ unit.in.definition.global_mesg_num \notin MesgNums) =>
          LET defs == AllFieldDefs(unit.in.definition)
          IN  /\ UnitOut.ok
              /\ Len(UnitOut.val) = Len(defs)
              /\ \A i \in 1..Len(defs) :
                   /\ UnitOut.val[i].msg = "Unknown"
                   /\ UnitOut.val[i].mesg_num =
                        unit.in.definition.global_mesg_num
                   /\ UnitOut.val[i].field_def_num = defs[i].num
                   /\ UnitOut.val[i].data = UnitOut.reads[i].buffer
                   /\ Len(UnitOut.val[i].data) = defs[i].size

\* A data record of global message 5120 with a 2-byte field read in full.
C11_Witness ==
    /\ DataApplied /\ UnitOut.ok
    /\ unit.in.definition.global_mesg_num = 5120
    /\ Len(UnitOut.val) >= 1
    /\ UnitOut.val[1].msg = "Unknown"
    /\ UnitOut.val[1].data = <<196, 9>>
    /\ UnitOut.val[1].field_def_num = 2

\* C12: a field of a message of the registry whose field definition number
\* the message has no arm for decodes without error to the Unknown variant
\* of that message (not to Message::Unknown), carrying the bytes of the
\* buffer and the field definition number.
C12_UnknownField ==
    (/\ MessageApplied
     /\ unit.in.mesg_num \in MesgNums
     /\ unit.in.field_def_num
          \notin ProfileMessage(unit.in.mesg_num).nums) =>
        /\ UnitOut.ok
        /\ UnitOut.val = [msg |-> ProfileMessage(unit.in.mesg_num).name,
                          variant |-> "Unknown",
                          data |-> unit.in.buffer,
                          field_def_num |-> unit.in.field_def_num]
        /\ UnitOut.val.msg # "Unknown"

\* Field 6 of FileId and field 5 of Event are not fields of the profile.
C12_Witness ==
    /\ MessageApplied /\ UnitOut.ok
    /\ \/ unit.in.mesg_num = 0 /\ unit.in.field_def_num = 6
          /\ UnitOut.val.msg = "FileId"
       \/ unit.in.mesg_num = 21 /\ unit.in.field_def_num = 5
          /\ UnitOut.val.msg = "Event"
    /\ UnitOut.val.variant = "Unknown"
    /\ UnitOut.val.data = <<65, 9, 255, 1>>

\* An Unknown variant: of a message of the registry, or Message::Unknown.
IsUnknownVariant(m) ==
    IF m.msg = "Unknown" THEN TRUE ELSE m.variant = "Unknown"

\* C13: the developer fields of a data record are read after all regular
\* fields, each into a buffer of its declared size, and each is emitted as
\* an Unknown variant holding that buffer; the field definition number a
\* developer field is decoded with (255) is a field of no message of the
\* registry.
C13_DeveloperFieldsUnknown ==
    /\ (DataApplied /\ UnitOut.ok
         /\ IsSome(unit.in.definition.devfield_defs)) =>
          LET d == unit.in.definition
              nf == Len(d.field_defs)
              devs == Unwrap(d.devfield_defs)
          IN  /\ Len(UnitOut.val) = nf + Len(devs)
              /\ \A j \in 1..Len(devs) :
                   /\ UnitOut.reads[nf + j].size = devs[j].size
                   /\ Len(UnitOut.reads[nf + j].buffer) = devs[j].size
                   /\ IsUnknownVariant(UnitOut.val[nf + j])
                   /\ UnitOut.val[nf + j].data = UnitOut.reads[nf + j].buffer
                   /\ (\A i \in 1..(nf + j) :
                          UnitOut.reads[i].nread = UnitOut.reads[i].size) =>
                        UnitOut.val[nf + j].data =
                            FieldRun(UnitBytes, AllFieldDefs(d), nf + j)
    /\ (MessageApplied /\ unit.in.field_def_num = 255) =>
          /\ UnitOut.ok
          /\ IsUnknownVariant(UnitOut.val)
          /\ UnitOut.val.data = unit.in.buffer

\* A Record data message with two regular fields and a developer field of
\* one byte, read in full: the developer byte is the fourth of the source.
C13_Witness ==
    /\ DataApplied /\ UnitOut.ok
    /\ unit.in.definition.global_mesg_num = 20
    /\ unit.in.definition.nfields = 2
    /\ SumSizes(unit.in.definition.field_defs) = 3
    /\ unit.in.definition.ndevfields = <<1>>
    /\ unit.in.definition.devfield_defs[1][1].size = 1
    /\ UnitOut.val[3].msg = "Record"
    /\ UnitOut.val[3].variant = "Unknown"
    /\ UnitOut.val[3].data = <<65>>
    /\ UnitOut.val[3].field_def_num = 255

\* A record was decoded from a compressed-timestamp header byte.
CompressedApplied ==
    RecordApplied /\ Len(UnitBytes) >= 1 /\ UnitBytes[1] >= 128

\* C14: Record::decode on a header byte with bit 7 set consumes that byte
\* only and yields a CompressedTimestamp record whose header carries the
\* time offset (bits 4..0); the source is left at the byte that follows,
\* which the next Record::decode takes as its header.
C14_CompressedConsumesHeaderOnly ==
    CompressedApplied =>
        /\ UnitOut.ok
        /\ UnitConsumed = 1
        /\ UnitOut.rd.data = Tail(UnitBytes)
        /\ UnitOut.val.content.type = "CompressedTimestamp"
        /\ UnitOut.val.header.type = "CompressedTimestamp"
        /\ UnitOut.val.header.time_offset = UnitBytes[1] % 32
        /\ Len(UnitBytes) >= 2 =>
             Record_decode(UnitOut.rd, unit.in.table).header =
                Some(Header_decode(Reader(<<UnitBytes[2]>>, 0, 0)).val)

\* Header 0xA3 followed by the bytes C4 09 A3, with a definition of a
\* 2-byte field on slot 1: one byte is consumed.
C14_Witness ==
    /\ CompressedApplied /\ UnitOut.ok
    /\ UnitBytes = <<163, 196, 9, 163>>
    /\ 1 \in DOMAIN unit.in.table
    /\ UnitOut.val.header.time_offset = 3
    /\ UnitOut.rd.data = <<196, 9, 163>>

\* C15: a compressed-timestamp record whose header names a slot that holds
\* a definition has a payload decoded with the field layout of that
\* definition: the bytes of the definition's fields are consumed after the
\* header and the record carries their messages.
C15_CompressedPayload ==
    (/\ CompressedApplied
     /\ UnitOut.ok
     /\ UnitOut.val.header.local_mesg_num \in DOMAIN unit.in.table
     /\ Len(UnitBytes) > SumSizes(AllFieldDefs(
            unit.in.table[UnitOut.val.header.local_mesg_num]))) =>
        \E d \in {unit.in.table[UnitOut.val.header.local_mesg_num]} :
            /\ UnitConsumed = 1 + SumSizes(AllFieldDefs(d))
            /\ "messages" \in DOMAIN UnitOut.val.content
            /\ UnitOut.val.content.messages =
                 Data_decode(Reader(Tail(UnitBytes), 1, 0), d,
                             byte_order(d)).val

\* C16: the value of a decoded integer field is raw_value / scale - offset
\* with scale 1 and offset 0 when absent (as a quotient: value * scale =
\* raw_value - offset * scale); field 2 of message 20 decodes to Altitude,
\* a 16-bit unsigned value in the byte order asked for, with scale 5,
\* offset 500 and units "m", so that raw 2500 has the value 0.
C16_ValueScaleOffset ==
    /\ ValueApplied =>
          LET f == unit.in.field
              s == IF f.scale = None THEN 1 ELSE f.scale[1]
              o == IF f.offset = None THEN 0 ELSE f.offset[1]
              v == UnitOut.value
          IN  /\ v.den = s
              /\ v.num = f.raw_value.raw - o * s
              /\ (f.variant = "Altitude" /\ f.raw_value.raw = 2500) =>
                    v.num = 0
              /\ (f.scale = None /\ f.offset = None) =>
                    v = [num |-> f.raw_value.raw, den |-> 1]
    /\ (MessageApplied /\ unit.in.mesg_num = 20
         /\ unit.in.field_def_num = 2) =>
          /\ UnitOut.ok
          /\ UnitOut.val.msg = "Record" /\ UnitOut.val.variant = "Altitude"
          /\ UnitOut.val.btype = "Uint16"
          /\ UnitOut.val.raw_value.raw =
                IF unit.in.T = "LittleEndian"
                THEN unit.in.buffer[1] + 256 * unit.in.buffer[2]
                ELSE 256 * unit.in.buffer[1] + unit.in.buffer[2]
          /\ UnitOut.val.scale = <<5>> /\ UnitOut.val.offset = <<500>>
          /\ UnitOut.val.units = <<"m">>

\* Altitude with raw 2500 has the value 0.
C16_Witness ==
    /\ ValueApplied
    /\ unit.in.field.variant = "Altitude"
    /\ unit.in.field.raw_value.raw = 2500
    /\ UnitOut.value.num = 0 /\ UnitOut.value.den = 5

\* C17: a field whose raw value is the invalid value of its base type is
\* decoded and emitted like any other: field 3 of message 20 with the byte
\* 0xFF decodes without error to HeartRate with raw value 255, alone or in
\* a data record, and is_valid on it is false (and true on other values).
C17_InvalidSentinelPasses ==
    /\ (MessageApplied /\ unit.in.mesg_num = 20
         /\ unit.in.field_def_num = 3) =>
          /\ UnitOut.ok
          /\ UnitOut.val.msg = "Record" /\ UnitOut.val.variant = "HeartRate"
          /\ UnitOut.val.raw_value.raw = unit.in.buffer[1]
    /\ (ValueApplied /\ unit.in.field.variant = "HeartRate") =>
          UnitOut.is_valid = (unit.in.field.raw_value.raw # 255)
    /\ (DataApplied /\ unit.in.definition.global_mesg_num = 20) =>
          \A i \in 1..Len(unit.in.definition.field_defs) :
             (/\ unit.in.definition.field_defs[i].num = 3
              /\ i <= Len(UnitOut.reads)
              /\ UnitOut.reads[i].buffer = <<255>>) =>
                /\ UnitOut.ok
                /\ UnitOut.val[i].variant = "HeartRate"
                /\ UnitOut.val[i].raw_value.raw = 255
                /\ ~Field_is_valid(UnitOut.val[i])

\* is_valid is applied to a HeartRate field of raw value 255.
C17_Witness ==
    /\ ValueApplied
    /\ unit.in.field.variant = "HeartRate"
    /\ unit.in.field.raw_value.raw = 255
    /\ ~UnitOut.is_valid

\* The outcome of a decode that a caller can see: success or the error,
\* the value, and the number of bytes taken from the source.
Outcome(o, rd) ==
    [ok |-> o.ok, val |-> o.val, err |-> o.err, consumed |-> o.rd.pos - rd.pos]

\* C18: decoding is a function of the bytes: Data::decode and Record::decode
\* give the same records or the same error and consume the same number of
\* bytes on every source that delivers the same byte sequence, however the
\* source cuts its reads.
C18_Deterministic ==
    /\ DataApplied =>
          \A b \in BlockSizes :
             Outcome(Data_decode([unit.in.rd EXCEPT !.blk = b],
                                 unit.in.definition, unit.in.T), unit.in.rd)
                = Outcome(UnitOut, unit.in.rd)
    /\ RecordApplied =>
          \A b \in BlockSizes :
             Outcome(Record_decode([unit.in.rd EXCEPT !.blk = b],
                                   unit.in.table), unit.in.rd)
                = Outcome(UnitOut, unit.in.rd)

\* The variants of the messages of a data record, in order.
Variants(msgs) == [i \in 1..Len(msgs) |-> msgs[i].variant]

\* C19 as stated: the FileId data record of 7 fields decodes to one
\* Message::FileId.
C19_OneFileIdMessage ==
    (DataApplied /\ unit.in.definition = FileIdDefinition) =>
        /\ UnitOut.ok
        /\ Len(UnitOut.val) = 1
        /\ UnitOut.val[1].msg = "FileId"

\* C19 amended: the FileId data record of 7 fields (field numbers 0, 1, 2,
\* 3, 4, 5, 8) decodes to 7 messages, one per field and each a
\* Message::FileId, holding in definition order the variants Type,
\* Manufacturer, Product, SerialNumber, TimeCreated, Number and
\* ProductName.
C19_FileIdMessagePerField ==
    (DataApplied /\ unit.in.definition = FileIdDefinition) =>
        /\ UnitOut.ok
        /\ Len(UnitOut.val) = 7
        /\ \A i \in 1..7 : UnitOut.val[i].msg = "FileId"
        /\ Variants(UnitOut.val) =
             <<"Type", "Manufacturer", "Product", "SerialNumber",
               "TimeCreated", "Number", "ProductName">>

\* The FileId data record read in full: product 2500, name "ab".
C19_Witness ==
    /\ DataApplied /\ UnitOut.ok
    /\ unit.in.definition = FileIdDefinition
    /\ UnitConsumed = 19
    /\ Len(UnitOut.val) = 7
    /\ UnitOut.val[3].raw_value.raw = 2500
    /\ UnitOut.val[7].raw_value.text = <<97, 98>>

\* C20: the dump program ends with exit code 0 when the file decoded and
\* with a non-zero exit code when File decoding returned an error.
C20_ExitCode ==
    IsSome(dump) =>
        /\ status = "done" => Unwrap(dump).exit_code = 0
        /\ status = "failed" => Unwrap(dump).exit_code # 0

\* C21: a call of Record::decode leaves the local-message table as it was;
\* the table changes only when the driver stores a decoded definition, and
\* then the slot of the definition's header holds the new definition (in
\* place of the one it held, if any) and every other slot is unchanged.
C21_TableFrame ==
    last.called =>
        IF last.ok /\ last.record.content.type = "Definition"
        THEN \E slot \in {last.record.header.local_mesg_num} :
                /\ DOMAIN local_mesgs = DOMAIN last.table \cup {slot}
                /\ local_mesgs[slot] = last.record.content.def
                /\ \A n \in DOMAIN last.table \ {slot} :
                     local_mesgs[n] = last.table[n]
        ELSE local_mesgs = last.table

\* Slots 0 and 1 hold definitions and slot 0 gets a definition of the other
\* architecture: slot 1 keeps its definition.
C21_Witness ==
    /\ last.called /\ last.ok
    /\ last.record.content.type = "Definition"
    /\ last.record.header.local_mesg_num = 0
    /\ DOMAIN last.table = {0, 1}
    /\ last.table[0] # last.record.content.def
    /\ local_mesgs[0] = last.record.content.def
    /\ local_mesgs[1] = last.table[1]

\* The number of bytes of a definition message that the wire bytes declare:
\* 5 + 3n, and with the developer flag 6 + 3n + 3m (n at offset 5, m at
\* offset 6 + 3n); -1 when the bytes end before a count.
DeclaredLength(bytes, has_dev_fields) ==
    IF Len(bytes) < 5 THEN -1
    ELSE IF ~has_dev_fields THEN 5 + 3 * bytes[5]
    ELSE IF Len(bytes) < 6 + 3 * bytes[5] THEN -1
    ELSE 6 + 3 * bytes[5] + 3 * bytes[6 + 3 * bytes[5]]

\* The three wire bytes of the i-th field definition that starts at offset
\* base + 1.
WireField(bytes, base, i) == SubSeq(bytes, base + 3 * i - 2, base + 3 * i)

\* C22: a successful Definition::decode consumes 5 + 3n bytes when the
\* developer flag is clear and 6 + 3n + 3m bytes when it is set: the
\* reserved byte, the architecture byte, the global message number of two
\* bytes in the byte order of the architecture, the count n, n field
\* definitions of three bytes (number, size, third byte) and, flag set
\* only, the count m and m developer field definitions of three bytes
\* (the size being the second).
C22_DefinitionLayout ==
    (DefinitionApplied /\ UnitOut.ok) =>
        LET dev == unit.in.has_dev_fields
            n == UnitBytes[5]
            d == UnitOut.val
        IN  /\ UnitConsumed = DeclaredLength(UnitBytes, dev)
            /\ UnitConsumed = IF dev THEN 6 + 3 * n + 3 * UnitBytes[6 + 3 * n]
                              ELSE 5 + 3 * n
            /\ UnitOut.rd.data = Drop(UnitBytes, UnitConsumed)
            /\ d.arch = (IF UnitBytes[2] = 0 THEN "LittleEndian"
                         ELSE "BigEndian")
            /\ d.global_mesg_num =
                 (IF UnitBytes[2] = 0 THEN UnitBytes[3] + 256 * UnitBytes[4]
                  ELSE 256 * UnitBytes[3] + UnitBytes[4])
            /\ d.nfields = n /\ Len(d.field_defs) = n
            /\ \A i \in 1..n :
                 <<d.field_defs[i].num, d.field_defs[i].size,
                   d.field_defs[i].base_type_num>> = WireField(UnitBytes, 5, i)
            /\ dev =>
                 /\ d.ndevfields = Some(UnitBytes[6 + 3 * n])
                 /\ \A j \in 1..UnitBytes[6 + 3 * n] :
                      d.devfield_defs[1][j].size =
                          WireField(UnitBytes, 6 + 3 * n, j)[2]
            /\ ~dev => d.ndevfields = None

\* A definition with two fields and one developer field: 15 bytes; and the
\* same bytes of a definition of one field decoded with the flag clear
\* leave the byte after the field unread.
C22_Witness ==
    /\ DefinitionApplied /\ UnitOut.ok
    /\ \/ /\ unit.in.has_dev_fields
          /\ UnitOut.val.nfields = 2
          /\ UnitOut.val.ndevfields = <<1>>
          /\ UnitConsumed = 15
       \/ /\ ~unit.in.has_dev_fields
          /\ UnitBytes = <<7, 1, 20, 0, 1, 2, 2, 132, 0>>
          /\ UnitConsumed = 8
          /\ UnitOut.val.global_mesg_num = 5120

\* C23: every field definition of a decoded definition, regular or
\* developer, holds the field number, the size and the third byte (base
\* type id or developer data index) read from the wire.
C23_FieldDefinitionKeepsWire ==
    (DefinitionApplied /\ UnitOut.ok) =>
        LET n == UnitBytes[5]
            d == UnitOut.val
        IN  /\ \A i \in 1..n :
                 <<d.field_defs[i].num, d.field_defs[i].size,
                   d.field_defs[i].base_type_num>> = WireField(UnitBytes, 5, i)
            /\ unit.in.has_dev_fields =>
                 \A j \in 1..UnitBytes[6 + 3 * n] :
                    <<d.devfield_defs[1][j].num, d.devfield_defs[1][j].size,
                      d.devfield_defs[1][j].base_type_num>>
                        = WireField(UnitBytes, 6 + 3 * n, j)

\* The profile fails on the buffer of the i-th read of a data decode.
ProfileFails(i) ==
    ~Message_decode(UnitOut.reads[i].buffer,
                    unit.in.definition.global_mesg_num,
                    AllFieldDefs(unit.in.definition)[i].num, unit.in.T).ok

RECURSIVE SumRead(_)
\* The bytes the source gave over a run of reads.
SumRead(reads) ==
    IF reads = <<>> THEN 0 ELSE reads[1].nread + SumRead(Tail(reads))

\* C24: when the profile fails on a field of a data record, Data::decode
\* returns that error and no data record, whatever fields were decoded
\* before; the failing field is the last one read, so the bytes of the
\* fields after it stay in the source.
C24_ProfileFailureIsFatal ==
    DataApplied =>
        /\ \A i \in 1..Len(UnitOut.reads) :
             ProfileFails(i) =>
                /\ ~UnitOut.ok
                /\ UnitOut.val = <<>>
                /\ Len(UnitOut.reads) = i
                /\ UnitOut.err =
                     Message_decode(UnitOut.reads[i].buffer,
                                    unit.in.definition.global_mesg_num,
                                    AllFieldDefs(unit.in.definition)[i].num,
                                    unit.in.T).err
                /\ UnitConsumed = SumRead(UnitOut.reads)
                /\ UnitOut.rd.data = Drop(UnitBytes, UnitConsumed)
        /\ ~UnitOut.ok => ProfileFails(Len(UnitOut.reads))

\* Product, ProductName, Product with the bytes C4 09 FF FE 01 00: the
\* string is not UTF-8; four bytes are consumed and 01 00 stay unread.
C24_Witness ==
    /\ DataApplied /\ ~UnitOut.ok
    /\ UnitBytes = <<196, 9, 255, 254, 1, 0>>
    /\ unit.in.definition.nfields = 3
    /\ Len(UnitOut.reads) = 2
    /\ UnitOut.err = <<[kind |-> "InvalidEncoding", what |-> "", n |-> -1]>>
    /\ UnitOut.rd.data = <<1, 0>>

\* The source of a record decode ends at the header or inside the body of
\* a definition record whose architecture byte, if there, is 0 or 1.
EndsInDefinition(bytes) ==
    \/ bytes = <<>>
    \/ /\ bytes[1] \in 64..127
       /\ Len(bytes) >= 3 => bytes[3] \in {0, 1}
       /\ \E declared \in {DeclaredLength(Tail(bytes), bytes[1] >= 96)} :
            declared = -1 \/ Len(bytes) - 1 < declared

\* The chain is a read error: its root cause is UnexpectedEof and the
\* layer above the root cause is a Read layer.
IsReadError(err) ==
    /\ Len(err) >= 2
    /\ RootCause(err).kind = "UnexpectedEof"
    /\ err[Len(err) - 1].kind = "Read"

\* C25: when the source ends at the record header or anywhere inside a
\* definition record, Record::decode fails with a read error (UnexpectedEof
\* under a Read layer), returns no record and so no definition, and has
\* taken every byte the source had.
C25_EofInDefinition ==
    (RecordApplied /\ EndsInDefinition(UnitBytes)) =>
        /\ ~UnitOut.ok
        /\ UnitOut.val = <<>>
        /\ IsReadError(UnitOut.err)
        /\ UnitOut.rd.data = <<>>
        /\ UnitOut.rd.hit

\* The developer-flagged definition record cut inside its second developer
\* field definition: 15 of 16 bytes.
C25_Witness ==
    /\ RecordApplied
    /\ UnitBytes = <<96, 7, 1, 0, 20, 1, 2, 2, 132, 2, 7, 1, 0, 8, 2>>
    /\ ~UnitOut.ok
    /\ UnitOut.err = <<Layer("Decoding", "definition message", -1),
                       Layer("Read", "field definition #", 1),
                       Layer("Read", "developer field data index", -1),
                       Layer("UnexpectedEof", "", -1)>>

\* The names Record::decode gives the layers it wraps.
LayerNames == {"header", "definition message", "data message"}

\* Every UnexpectedEof of the chain lies directly under a Read layer that
\* names an item, all layers above the last are Read or Decoding layers,
\* and the last layer is a cause.
ChainWellFormed(err) ==
    /\ Len(err) >= 1
    /\ \A i \in 1..Len(err) :
         /\ err[i].kind = "UnexpectedEof" =>
                i > 1 /\ err[i - 1].kind = "Read" /\ err[i - 1].what # ""
         /\ i < Len(err) => err[i].kind \in {"Read", "Decoding"}
    /\ RootCause(err).kind \in {"UnexpectedEof", "UnknownArchitecture",
                                "MissingDefinition", "InvalidEncoding",
                                "InvalidLength"}

\* C26 as stated: every failure of Record::decode comes wrapped in a
\* Decoding layer that names the header, the definition message or the
\* data message, with every failed byte read under a Read layer.
C26_EveryFailureWrapped ==
    (RecordApplied /\ ~UnitOut.ok) =>
        /\ UnitOut.err[1].kind = "Decoding"
        /\ UnitOut.err[1].what \in LayerNames
        /\ ChainWellFormed(UnitOut.err)

\* C26, amended: a failure of Header::decode, Definition::decode or
\* Data::decode is returned under a Decoding layer naming "header",
\* "definition message" or "data message", the error of the decoder
\* unchanged below it; every failed byte read is under a Read layer naming
\* the item; the cause is the last layer of the chain.  The one failure
\* Record::decode raises itself, MissingDefinition for a data header whose
\* slot has no definition, is returned as it is.
C26_DecoderFailuresWrapped ==
    (RecordApplied /\ ~UnitOut.ok) =>
        /\ ChainWellFormed(UnitOut.err)
        /\ \/ /\ UnitOut.header = None
              /\ UnitOut.err =
                   Error_decoding("header", Header_decode(unit.in.rd).err)
           \/ /\ UnitOut.header # None
              /\ Unwrap(UnitOut.header).type = "Definition"
              /\ \E d \in {Definition_decode(
                               Header_decode(unit.in.rd).rd,
                               Unwrap(UnitOut.header).has_dev_fields)} :
                    /\ ~d.ok
                    /\ UnitOut.err = <<Layer("Decoding", "definition message",
                                             -1)>> \o d.err
           \/ /\ UnitOut.header # None
              /\ Unwrap(UnitOut.header).type = "Data"
              /\ Unwrap(UnitOut.header).local_mesg_num
                    \in DOMAIN unit.in.table
              /\ \E d \in {Data_decode(
                               Header_decode(unit.in.rd).rd,
                               unit.in.table[
                                   Unwrap(UnitOut.header).local_mesg_num],
                               byte_order(unit.in.table[
                                   Unwrap(UnitOut.header).local_mesg_num]))} :
                    /\ ~d.ok
                    /\ UnitOut.err = <<Layer("Decoding", "data message",
                                             -1)>> \o d.err
           \/ /\ UnitOut.header # None
              /\ Unwrap(UnitOut.header).type = "Data"
              /\ Unwrap(UnitOut.header).local_mesg_num
                    \notin DOMAIN unit.in.table
              /\ UnitOut.err =
                   <<Layer("MissingDefinition", "",
                           Unwrap(UnitOut.header).local_mesg_num)>>

\* A data record whose string field is not UTF-8: the profile's error under
\* the "data message" layer.
C26_Witness ==
    /\ RecordApplied /\ ~UnitOut.ok
    /\ UnitBytes = <<1, 255, 254, 196, 9>>
    /\ UnitOut.err = <<Layer("Decoding", "data message", -1),
                       Layer("InvalidEncoding", "", -1)>>

\* Values of the reserved byte, and the bytes with the byte at offset i
\* replaced.
ReservedValues == {0, 1, 7, 255}
WithByte(bytes, i, r) == [bytes EXCEPT ![i] = r]

\* Data records that follow a definition record: a header for slot 0 or 1
\* and three bytes.
FollowingData == {<<h, 196, 9, 255>> : h \in {0, 1}}

\* C27: the reserved byte of a definition has no part in the result.
\* Definition::decode gives the same definition or the same error and
\* consumes as many bytes whatever the value of the byte; so does
\* Record::decode on a definition record, and a data record that follows,
\* decoded with the table that holds the definition, gives the same record.
C27_ReservedByteIgnored ==
    /\ (DefinitionApplied /\ Len(UnitBytes) >= 1) =>
          \A r \in ReservedValues :
             Outcome(Definition_decode(
                         Reader(WithByte(UnitBytes, 1, r), unit.in.rd.pos,
                                unit.in.rd.blk),
                         unit.in.has_dev_fields), unit.in.rd)
               = Outcome(UnitOut, unit.in.rd)
    /\ (RecordApplied /\ Len(UnitBytes) >= 2 /\ UnitBytes[1] \in 64..127) =>
          \A r \in ReservedValues :
             \E other \in {Record_decode(
                               Reader(WithByte(UnitBytes, 2, r), 0, 0),
                               unit.in.table)} :
                /\ Outcome(other, unit.in.rd) = Outcome(UnitOut, unit.in.rd)
                /\ other.rd.data = UnitOut.rd.data
                /\ UnitOut.ok =>
                     \A p \in FollowingData :
                        Outcome(Record_decode(
                                  Reader(p, other.rd.pos, 0),
                                  insert(unit.in.table,
                                         other.val.header.local_mesg_num,
                                         other.val.content.def)), other.rd)
                        = Outcome(Record_decode(
                                  Reader(p, UnitOut.rd.pos, 0),
                                  insert(unit.in.table,
                                         UnitOut.val.header.local_mesg_num,
                                         UnitOut.val.content.def)),
                                  UnitOut.rd)

\* A definition record with the reserved byte 7 decodes to the definition
\* that the same record with the reserved byte 0 decodes to.
C27_Witness ==
    /\ RecordApplied /\ UnitOut.ok
    /\ UnitBytes = <<96, 7, 1, 0, 20, 1, 2, 2, 132, 2, 7, 1, 0, 8, 2, 1>>
    /\ UnitOut.val.content.type = "Definition"
    /\ UnitOut.val.content.def.global_mesg_num = 20
    /\ UnitOut.val =
         Record_decode(Reader(WithByte(UnitBytes, 2, 0), 0, 0),
                       unit.in.table).val

DefinitionInvariant(def, has_dev_fields) ==
    /\ Len(def.field_defs) = def.nfields
    /\ IsSome(def.ndevfields) <=> has_dev_fields
    /\ IsSome(def.devfield_defs) <=> has_dev_fields
    /\ has_dev_fields =>
         /\ Len(Unwrap(def.devfield_defs)) = Unwrap(def.ndevfields)
         /\ \A i \in 1..Len(Unwrap(def.devfield_defs)) :
              /\ Unwrap(def.devfield_defs)[i].num = 255
              /\ Unwrap(def.devfield_defs)[i].base_type_num = 13

\* C29: every definition that Definition::decode produces has nfields
\* field definitions; it has a developer count and developer field
\* definitions exactly when the developer flag of the record header was
\* set, and then as many developer field definitions as the count says,
\* each with field number 255 and base type 13.
C29_DefinitionInvariants ==
    /\ (DefinitionApplied /\ UnitOut.ok) =>
          DefinitionInvariant(UnitOut.val, unit.in.has_dev_fields)
    /\ (RecordApplied /\ UnitOut.ok
          /\ UnitOut.val.content.type = "Definition") =>
          DefinitionInvariant(UnitOut.val.content.def,
                              bit_is_set(UnitBytes[1], 5))

\* A definition record with the developer flag, one field and two
\* developer fields.
C29_Witness ==
    /\ RecordApplied /\ UnitOut.ok
    /\ UnitBytes[1] = 96
    /\ UnitOut.val.content.type = "Definition"
    /\ UnitOut.val.content.def.nfields = 1
    /\ UnitOut.val.content.def.ndevfields = Some(2)
    /\ UnitOut.val.content.def.devfield_defs =
         Some(<<[num |-> 255, size |-> 1, base_type_num |-> 13],
                [num |-> 255, size |-> 2, base_type_num |-> 13]>>)

\* C30: Record::decode consults the table for data headers only.  A
\* compressed-timestamp header decodes to a CompressedTimestamp record
\* whether or not its slot holds a definition; a definition header is
\* decoded the same with every table; MissingDefinition is the error of a
\* data header whose slot is empty, and of nothing else.
C30_TableForDataOnly ==
    (RecordApplied /\ Len(UnitBytes) >= 1) =>
        /\ UnitBytes[1] >= 128 =>
             /\ UnitOut.ok
             /\ UnitOut.val.content.type = "CompressedTimestamp"
        /\ UnitBytes[1] \in 64..127 =>
             \A t \in RecordTables \cup {StringTable} :
                Outcome(Record_decode(unit.in.rd, t), unit.in.rd)
                  = Outcome(UnitOut, unit.in.rd)
        /\ (~UnitOut.ok /\ RootCause(UnitOut.err).kind = "MissingDefinition")
             <=> /\ UnitBytes[1] < 64
                 /\ (UnitBytes[1] % 16) \notin DOMAIN unit.in.table

\* The compressed-timestamp header 0xA3 (slot 1) with an empty table.
C30_Witness ==
    /\ RecordApplied /\ UnitOut.ok
    /\ UnitBytes[1] = 163
    /\ unit.in.table = <<>>
    /\ UnitOut.val.content.type = "CompressedTimestamp"
    /\ UnitOut.val.header.local_mesg_num = 1

====
